---------------------------- MODULE Spec2Model ----------------------------
(***************************************************************************)
(* The JSON syntax validator of build_json_parser/src/main.rs: a lexer     *)
(* that turns a text into tokens and a recursive-descent parser over the   *)
(* tokens, driven as in tests::parse_json (lex_tokens, then parse_object)  *)
(* or as in main, which prints the verdict and exits.                      *)
(*                                                                         *)
(* The counter of build_rowc/src/main.rs is modelled beside it: a file is  *)
(* a sequence of bytes, and count_chars reads it as UTF-8 and counts its   *)
(* characters.                                                             *)
(*                                                                         *)
(* A character is a one-character string; a character outside ASCII is     *)
(* written by its code point ("u4E16").  The lexer runs one iteration of   *)
(* the lex_tokens loop per step; the parser runs one step of one active    *)
(* call per step, its call stack held in `stack`.                          *)
(***************************************************************************)
EXTENDS Integers, Sequences, FiniteSets, TLC

VARIABLES
    lexer,      \* Lexer { input, position }
    lexed,      \* the local `tokens` vector of lex_tokens
    lexret,     \* what lex_tokens returned, NoResult while it runs
    parser,     \* Parser { tokens, position }
    stack,      \* the active parse_object / parse_array / parse_value calls
    ret,        \* the value the innermost finished call returned, NoResult otherwise
    pc,         \* where the driver is: "lex", "parse", "done", "exit"
    result,     \* what validate returned
    out,        \* what main printed and the code it exited with
    rowc,       \* build_rowc: the file read, and what count_chars returned
    staged      \* what the validator of each earlier step returned for the text

vars == <<lexer, lexed, lexret, parser, stack, ret, pc, result, out, rowc, staged>>

---------------------------------------------------------------------------
(* Result<_, &'static str> *)

NoResult == [tag |-> "None", msg |-> ""]
Ok == [tag |-> "Ok", msg |-> ""]
Err(m) == [tag |-> "Err", msg |-> m]

---------------------------------------------------------------------------
(* enum Token *)

Tok(t) == [type |-> t, str |-> <<>>, bool |-> FALSE]
StringTok(s) == [type |-> "String", str |-> s, bool |-> FALSE]
BooleanTok(b) == [type |-> "Boolean", str |-> <<>>, bool |-> b]
\* the f64 payload of a Number is never read by the parser and is not kept
NumberTok == Tok("Number")
NullTok == Tok("Null")
\* Option::None of Parser::peek
NoToken == Tok("None")

\* Option::None of Lexer::peek
NoChar == "None"

---------------------------------------------------------------------------
(* character classes *)

AsciiDigit == {"0", "1", "2", "3", "4", "5", "6", "7", "8", "9"}

AsciiLower ==
    {"a", "b", "c", "d", "e", "f", "g", "h", "i", "j", "k", "l", "m",
     "n", "o", "p", "q", "r", "s", "t", "u", "v", "w", "x", "y", "z"}

AsciiUpper ==
    {"A", "B", "C", "D", "E", "F", "G", "H", "I", "J", "K", "L", "M",
     "N", "O", "P", "Q", "R", "S", "T", "U", "V", "W", "X", "Y", "Z"}

is_ascii_digit(c) == c \in AsciiDigit

is_ascii_alphabetic(c) == c \in AsciiLower \cup AsciiUpper

\* char::is_whitespace: the Unicode White_Space characters
WhiteSpace ==
    {" ", "\t", "\n", "\r", "u000B", "u000C", "u0085", "u00A0", "u1680",
     "u2000", "u2001", "u2002", "u2003", "u2004", "u2005", "u2006", "u2007",
     "u2008", "u2009", "u200A", "u2028", "u2029", "u202F", "u205F", "u3000"}

is_whitespace(c) == c \in WhiteSpace

\* the closure handed to read_while by lex_number
NumberChars == AsciiDigit \cup {"-", ".", "e", "E", "+"}

---------------------------------------------------------------------------
(* Lexer *)

Lexer_new(text) == [input |-> text, position |-> 0]

Lexer_peek(l) ==
    IF l.position < Len(l.input) THEN l.input[l.position + 1] ELSE NoChar

Lexer_advance(l) == [l EXCEPT !.position = l.position + 1]

RECURSIVE ReadWhileLoop(_, _, _)
ReadWhileLoop(l, predicate, acc) ==
    LET c == Lexer_peek(l)
    IN  IF c # NoChar /\ c \in predicate
        THEN ReadWhileLoop(Lexer_advance(l), predicate, Append(acc, c))
        ELSE [lexer |-> l, str |-> acc]

\* the predicate is the set of the characters it accepts
Lexer_read_while(l, predicate) == ReadWhileLoop(l, predicate, <<>>)

\* lex_string that advances once more when the text ends inside the string
RECURSIVE LexStringLoop_AdvancesPastEnd(_, _)
LexStringLoop_AdvancesPastEnd(l, acc) ==
    LET c == Lexer_peek(l)
    IN  CASE c = NoChar -> [lexer |-> Lexer_advance(l), res |-> Err("Unterminated string literal"), str |-> <<>>]
          [] c = "\"" -> [lexer |-> Lexer_advance(l), res |-> Ok, str |-> acc]
          [] c = "\\" -> [lexer |-> l, res |-> Err("Escape sequences not yet supported"), str |-> <<>>]
          [] c = "\n" -> [lexer |-> l, res |-> Err("Unterminated string literal"), str |-> <<>>]
          [] OTHER -> LexStringLoop_AdvancesPastEnd(Lexer_advance(l), Append(acc, c))

\* lex_string without the arm for '\\'
RECURSIVE LexStringLoop_NoEscapeCheck(_, _)
LexStringLoop_NoEscapeCheck(l, acc) ==
    LET c == Lexer_peek(l)
    IN  CASE c = NoChar -> [lexer |-> l, res |-> Err("Unterminated string literal"), str |-> <<>>]
          [] c = "\"" -> [lexer |-> Lexer_advance(l), res |-> Ok, str |-> acc]
          [] c = "\n" -> [lexer |-> l, res |-> Err("Unterminated string literal"), str |-> <<>>]
          [] OTHER -> LexStringLoop_NoEscapeCheck(Lexer_advance(l), Append(acc, c))

\* lex_string without the arm for '\n'
RECURSIVE LexStringLoop_NewlineAccepted(_, _)
LexStringLoop_NewlineAccepted(l, acc) ==
    LET c == Lexer_peek(l)
    IN  CASE c = NoChar -> [lexer |-> l, res |-> Err("Unterminated string literal"), str |-> <<>>]
          [] c = "\"" -> [lexer |-> Lexer_advance(l), res |-> Ok, str |-> acc]
          [] c = "\\" -> [lexer |-> l, res |-> Err("Escape sequences not yet supported"), str |-> <<>>]
          [] OTHER -> LexStringLoop_NewlineAccepted(Lexer_advance(l), Append(acc, c))

RECURSIVE LexStringLoop(_, _)
LexStringLoop(l, acc) ==
    LET c == Lexer_peek(l)
    IN  CASE c = NoChar -> [lexer |-> l, res |-> Err("Unterminated string literal"), str |-> <<>>]
          [] c = "\"" -> [lexer |-> Lexer_advance(l), res |-> Ok, str |-> acc]
          [] c = "\\" -> [lexer |-> l, res |-> Err("Escape sequences not yet supported"), str |-> <<>>]
          [] c = "\n" -> [lexer |-> l, res |-> Err("Unterminated string literal"), str |-> <<>>]
          [] OTHER -> LexStringLoop(Lexer_advance(l), Append(acc, c))

\* lex_string that puts the cursor back to the start of the input when it fails
Lexer_lex_string_RewindsOnError(l) ==
    LET r == LexStringLoop(Lexer_advance(l), <<>>)
    IN  IF r.res = Ok THEN r ELSE [r EXCEPT !.lexer = Lexer_new(l.input)]

Lexer_lex_string(l) == LexStringLoop(Lexer_advance(l), <<>>)

\* the index just after the run of ASCII digits of s that starts at index i
RECURSIVE DigitRun(_, _)
DigitRun(s, i) ==
    IF i <= Len(s) /\ is_ascii_digit(s[i]) THEN DigitRun(s, i + 1) ELSE i

\* str::parse::<f64> on a run of NumberChars: whether the run is
\*   Sign? (Digit+ | Digit+ '.' Digit* | Digit* '.' Digit+) (('e'|'E') Sign? Digit+)?
\* ("inf", "infinity" and "nan" hold letters that no run of NumberChars has)
ParsesAsF64(s) ==
    LET i0 == IF Len(s) >= 1 /\ s[1] \in {"+", "-"} THEN 2 ELSE 1
        i1 == DigitRun(s, i0)
        dot == i1 <= Len(s) /\ s[i1] = "."
        i2 == IF dot THEN DigitRun(s, i1 + 1) ELSE i1
        digits == (i1 - i0) + (IF dot THEN i2 - (i1 + 1) ELSE 0)
        exp == i2 <= Len(s) /\ s[i2] \in {"e", "E"}
        i3 == IF exp /\ i2 + 1 <= Len(s) /\ s[i2 + 1] \in {"+", "-"} THEN i2 + 2 ELSE i2 + 1
        i4 == IF exp THEN DigitRun(s, i3) ELSE i2
    IN  /\ digits > 0
        /\ exp => i4 > i3
        /\ i4 = Len(s) + 1

\* lex_number that holds the run to JSON's rule that an integer part of more
\* than one digit does not start with 0
Lexer_lex_number_NoLeadingZeros(l) ==
    LET r == Lexer_read_while(l, NumberChars)
        i0 == IF Len(r.str) >= 1 /\ r.str[1] = "-" THEN 2 ELSE 1
        leadingZero == /\ Len(r.str) > i0
                       /\ r.str[i0] = "0"
                       /\ is_ascii_digit(r.str[i0 + 1])
    IN  [lexer |-> r.lexer,
         res |-> IF ParsesAsF64(r.str) /\ ~leadingZero THEN Ok ELSE Err("Invalid number format")]

\* lex_number that gives a Number whatever the run
Lexer_lex_number_NeverFails(l) ==
    LET r == Lexer_read_while(l, NumberChars)
    IN  [lexer |-> r.lexer, res |-> Ok]

Lexer_lex_number(l) ==
    LET r == Lexer_read_while(l, NumberChars)
    IN  [lexer |-> r.lexer,
         res |-> IF ParsesAsF64(r.str) THEN Ok ELSE Err("Invalid number format")]

\* lex_identifier that also takes the capitalised True for true
Lexer_lex_identifier_Capitalised(l) ==
    LET r == Lexer_read_while(l, AsciiLower \cup AsciiUpper)
        identifier == r.str
    IN  [lexer |-> r.lexer,
         res |-> IF identifier \in {<<"t", "r", "u", "e">>, <<"T", "r", "u", "e">>,
                                    <<"f", "a", "l", "s", "e">>, <<"n", "u", "l", "l">>}
                 THEN Ok ELSE Err("Invalid identifier"),
         token |-> CASE identifier \in {<<"t", "r", "u", "e">>, <<"T", "r", "u", "e">>} -> BooleanTok(TRUE)
                     [] identifier = <<"f", "a", "l", "s", "e">> -> BooleanTok(FALSE)
                     [] identifier = <<"n", "u", "l", "l">> -> NullTok
                     [] OTHER -> NoToken]

Lexer_lex_identifier(l) ==
    LET r == Lexer_read_while(l, AsciiLower \cup AsciiUpper)
        identifier == r.str
    IN  [lexer |-> r.lexer,
         res |-> IF identifier \in {<<"t", "r", "u", "e">>, <<"f", "a", "l", "s", "e">>,
                                    <<"n", "u", "l", "l">>}
                 THEN Ok ELSE Err("Invalid identifier"),
         token |-> CASE identifier = <<"t", "r", "u", "e">> -> BooleanTok(TRUE)
                     [] identifier = <<"f", "a", "l", "s", "e">> -> BooleanTok(FALSE)
                     [] identifier = <<"n", "u", "l", "l">> -> NullTok
                     [] OTHER -> NoToken]

\* the six single-character arms of the match in lex_tokens
StructuralChars == {"{", "}", "[", "]", ":", ","}

StructuralToken(c) ==
    CASE c = "{" -> Tok("LeftBrace")
      [] c = "}" -> Tok("RightBrace")
      [] c = "[" -> Tok("LeftBracket")
      [] c = "]" -> Tok("RightBracket")
      [] c = ":" -> Tok("Colon")
      [] c = "," -> Tok("Comma")

\* the match of lex_tokens with '+' starting a number as '-' does
LexArm_PlusStartsNumber(c) ==
    IF c \in StructuralChars THEN "structural"
    ELSE IF c = "\"" THEN "string"
    ELSE IF is_ascii_digit(c) \/ c \in {"-", "+"} THEN "number"
    ELSE IF is_ascii_alphabetic(c) THEN "identifier"
    ELSE IF is_whitespace(c) THEN "whitespace"
    ELSE "invalid"

\* the match of lex_tokens with the whitespace arm taking the space only
LexArm_OnlySpaceIsWhitespace(c) ==
    IF c \in StructuralChars THEN "structural"
    ELSE IF c = "\"" THEN "string"
    ELSE IF is_ascii_digit(c) \/ c = "-" THEN "number"
    ELSE IF is_ascii_alphabetic(c) THEN "identifier"
    ELSE IF c = " " THEN "whitespace"
    ELSE "invalid"

\* which arm of the match in lex_tokens a character takes (the arms are tried in order)
LexArm(c) ==
    IF c \in StructuralChars THEN "structural"
    ELSE IF c = "\"" THEN "string"
    ELSE IF is_ascii_digit(c) \/ c = "-" THEN "number"
    ELSE IF is_ascii_alphabetic(c) THEN "identifier"
    ELSE IF is_whitespace(c) THEN "whitespace"
    ELSE "invalid"

\* lex_tokens as a whole, from the lexer l with `tokens` pushed so far:
\* the result and, when Ok, the tokens
RECURSIVE Lexer_lex_tokens(_, _)
Lexer_lex_tokens(l, tokens) ==
    LET c == Lexer_peek(l)
        arm == LexArm(c)
    IN  IF c = NoChar THEN [res |-> Ok, tokens |-> tokens]
        ELSE IF arm = "structural"
        THEN Lexer_lex_tokens(Lexer_advance(l), Append(tokens, StructuralToken(c)))
        ELSE IF arm = "string"
        THEN LET r == Lexer_lex_string(l)
             IN  IF r.res = Ok THEN Lexer_lex_tokens(r.lexer, Append(tokens, StringTok(r.str)))
                 ELSE [res |-> r.res, tokens |-> <<>>]
        ELSE IF arm = "number"
        THEN LET r == Lexer_lex_number(l)
             IN  IF r.res = Ok THEN Lexer_lex_tokens(r.lexer, Append(tokens, NumberTok))
                 ELSE [res |-> r.res, tokens |-> <<>>]
        ELSE IF arm = "identifier"
        THEN LET r == Lexer_lex_identifier(l)
             IN  IF r.res = Ok THEN Lexer_lex_tokens(r.lexer, Append(tokens, r.token))
                 ELSE [res |-> r.res, tokens |-> <<>>]
        ELSE IF arm = "whitespace" THEN Lexer_lex_tokens(Lexer_advance(l), tokens)
        ELSE [res |-> Err("Invalid character in JSON"), tokens |-> <<>>]

Lexing == pc = "lex" /\ lexret = NoResult

LexStructural ==
    /\ Lexing
    /\ Lexer_peek(lexer) # NoChar
    /\ LexArm(Lexer_peek(lexer)) = "structural"
    /\ lexed' = Append(lexed, StructuralToken(Lexer_peek(lexer)))
    /\ lexer' = Lexer_advance(lexer)
    /\ UNCHANGED <<lexret, parser, stack, ret, pc, result, out, rowc, staged>>

LexString ==
    /\ Lexing
    /\ Lexer_peek(lexer) # NoChar
    /\ LexArm(Lexer_peek(lexer)) = "string"
    /\ LET r == Lexer_lex_string(lexer)
       IN  /\ lexer' = r.lexer
           /\ IF r.res = Ok
              THEN lexed' = Append(lexed, StringTok(r.str)) /\ UNCHANGED lexret
              ELSE lexret' = r.res /\ UNCHANGED lexed
    /\ UNCHANGED <<parser, stack, ret, pc, result, out, rowc, staged>>

LexNumber ==
    /\ Lexing
    /\ Lexer_peek(lexer) # NoChar
    /\ LexArm(Lexer_peek(lexer)) = "number"
    /\ LET r == Lexer_lex_number(lexer)
       IN  /\ lexer' = r.lexer
           /\ IF r.res = Ok
              THEN lexed' = Append(lexed, NumberTok) /\ UNCHANGED lexret
              ELSE lexret' = r.res /\ UNCHANGED lexed
    /\ UNCHANGED <<parser, stack, ret, pc, result, out, rowc, staged>>

LexIdentifier ==
    /\ Lexing
    /\ Lexer_peek(lexer) # NoChar
    /\ LexArm(Lexer_peek(lexer)) = "identifier"
    /\ LET r == Lexer_lex_identifier(lexer)
       IN  /\ lexer' = r.lexer
           /\ IF r.res = Ok
              THEN lexed' = Append(lexed, r.token) /\ UNCHANGED lexret
              ELSE lexret' = r.res /\ UNCHANGED lexed
    /\ UNCHANGED <<parser, stack, ret, pc, result, out, rowc, staged>>

\* the whitespace arm without its advance
LexWhitespace_NoAdvance ==
    /\ Lexing
    /\ Lexer_peek(lexer) # NoChar
    /\ LexArm(Lexer_peek(lexer)) = "whitespace"
    /\ UNCHANGED vars

LexWhitespace ==
    /\ Lexing
    /\ Lexer_peek(lexer) # NoChar
    /\ LexArm(Lexer_peek(lexer)) = "whitespace"
    /\ lexer' = Lexer_advance(lexer)
    /\ UNCHANGED <<lexed, lexret, parser, stack, ret, pc, result, out, rowc, staged>>

LexInvalid ==
    /\ Lexing
    /\ Lexer_peek(lexer) # NoChar
    /\ LexArm(Lexer_peek(lexer)) = "invalid"
    /\ lexret' = Err("Invalid character in JSON")
    /\ UNCHANGED <<lexer, lexed, parser, stack, ret, pc, result, out, rowc, staged>>

\* the loop of lex_tokens ends: Ok(tokens)
LexEnd ==
    /\ Lexing
    /\ Lexer_peek(lexer) = NoChar
    /\ lexret' = Ok
    /\ UNCHANGED <<lexer, lexed, parser, stack, ret, pc, result, out, rowc, staged>>

---------------------------------------------------------------------------
(* Parser *)

Parser_new(tokens) == [tokens |-> tokens, position |-> 0]

Parser_peek(p) ==
    IF p.position < Len(p.tokens) THEN p.tokens[p.position + 1] ELSE NoToken

Parser_advance(p) == [p EXCEPT !.position = p.position + 1]

\* a call that has just been entered, with the cursor at `entry`; the
\* code keeps no record of `entry`, which no step of a call reads
Frame(fn, entry) == [fn |-> fn, pc |-> "start", first |-> TRUE, entry |-> entry]

\* what one step of a call does: return res, call another function, or go on
Return(p, res) == [parser |-> p, res |-> res, call |-> ""]
Call(p, fn) == [parser |-> p, res |-> NoResult, call |-> fn]
Continue(p) == [parser |-> p, res |-> NoResult, call |-> ""]

\* parse_value that hands a closing bracket to parse_array as well
Parser_parse_value_ArrayOnAnyBracket(p) ==
    LET t == Parser_peek(p).type
    IN  IF t = "LeftBrace" THEN Call(p, "parse_object")
        ELSE IF t \in {"LeftBracket", "RightBracket"} THEN Call(p, "parse_array")
        ELSE IF t \in {"String", "Number", "Boolean", "Null"} THEN Return(Parser_advance(p), Ok)
        ELSE Return(p, Err("Expected value"))

\* parse_value with Token::Null left out of the leaf arm
Parser_parse_value_NoNull(p) ==
    LET t == Parser_peek(p).type
    IN  IF t = "LeftBrace" THEN Call(p, "parse_object")
        ELSE IF t = "LeftBracket" THEN Call(p, "parse_array")
        ELSE IF t \in {"String", "Number", "Boolean"} THEN Return(Parser_advance(p), Ok)
        ELSE Return(p, Err("Expected value"))

\* parse_value that consumes the token it rejects
Parser_parse_value_ConsumesRejected(p) ==
    LET t == Parser_peek(p).type
    IN  IF t = "LeftBrace" THEN Call(p, "parse_object")
        ELSE IF t = "LeftBracket" THEN Call(p, "parse_array")
        ELSE IF t \in {"String", "Number", "Boolean", "Null"} THEN Return(Parser_advance(p), Ok)
        ELSE Return(Parser_advance(p), Err("Expected value"))

Parser_parse_value(p) ==
    LET t == Parser_peek(p).type
    IN  IF t = "LeftBrace" THEN Call(p, "parse_object")
        ELSE IF t = "LeftBracket" THEN Call(p, "parse_array")
        ELSE IF t \in {"String", "Number", "Boolean", "Null"} THEN Return(Parser_advance(p), Ok)
        ELSE Return(p, Err("Expected value"))

\* parse_array, "Consume the opening bracket"
ParseArrayOpen(p) ==
    IF Parser_peek(p).type = "LeftBracket" THEN Continue(Parser_advance(p))
    ELSE Return(p, Err("Expected '['"))

\* parse_array that finds a trailing comma by looking past the comma
\* before consuming it
ParseArrayLoop_LooksPastComma(p, first) ==
    LET token == Parser_peek(p)
    IN  IF token = NoToken THEN Return(p, Err("Unexpected end of input"))
        ELSE IF token.type = "RightBracket" THEN Return(Parser_advance(p), Ok)
        ELSE IF token.type = "Comma" /\ ~first
             THEN IF Parser_peek(Parser_advance(p)).type = "RightBracket"
                  THEN Return(p, Err("Trailing comma not allowed"))
                  ELSE Call(Parser_advance(p), "parse_value")
        ELSE IF ~first THEN Return(p, Err("Expected ',' or ']'"))
        ELSE Call(p, "parse_value")

\* parse_array without the arm `Token::RightBracket if first`
ParseArrayLoop_EmptyRejected(p, first) ==
    LET token == Parser_peek(p)
    IN  IF token = NoToken THEN Return(p, Err("Unexpected end of input"))
        ELSE IF token.type = "RightBracket" /\ ~first THEN Return(Parser_advance(p), Ok)
        ELSE IF token.type = "Comma" /\ ~first
             THEN IF Parser_peek(Parser_advance(p)).type = "RightBracket"
                  THEN Return(Parser_advance(p), Err("Trailing comma not allowed"))
                  ELSE Call(Parser_advance(p), "parse_value")
        ELSE IF ~first THEN Return(p, Err("Expected ',' or ']'"))
        ELSE Call(p, "parse_value")

\* parse_array without the arm `_ if !first`
ParseArrayLoop_CommaOptional(p, first) ==
    LET token == Parser_peek(p)
    IN  IF token = NoToken THEN Return(p, Err("Unexpected end of input"))
        ELSE IF token.type = "RightBracket" THEN Return(Parser_advance(p), Ok)
        ELSE IF token.type = "Comma" /\ ~first
             THEN IF Parser_peek(Parser_advance(p)).type = "RightBracket"
                  THEN Return(Parser_advance(p), Err("Trailing comma not allowed"))
                  ELSE Call(Parser_advance(p), "parse_value")
        ELSE Call(p, "parse_value")

\* parse_array that skips a comma before its first value
ParseArrayLoop_SkipsLeadingComma(p, first) ==
    LET token == Parser_peek(p)
    IN  IF token = NoToken THEN Return(p, Err("Unexpected end of input"))
        ELSE IF token.type = "RightBracket" THEN Return(Parser_advance(p), Ok)
        ELSE IF token.type = "Comma"
             THEN IF Parser_peek(Parser_advance(p)).type = "RightBracket"
                  THEN Return(Parser_advance(p), Err("Trailing comma not allowed"))
                  ELSE Call(Parser_advance(p), "parse_value")
        ELSE IF ~first THEN Return(p, Err("Expected ',' or ']'"))
        ELSE Call(p, "parse_value")

\* parse_array that returns at its closing bracket without consuming it
ParseArrayLoop_CloserNotConsumed(p, first) ==
    LET token == Parser_peek(p)
    IN  IF token = NoToken THEN Return(p, Err("Unexpected end of input"))
        ELSE IF token.type = "RightBracket" THEN Return(p, Ok)
        ELSE IF token.type = "Comma" /\ ~first
             THEN IF Parser_peek(Parser_advance(p)).type = "RightBracket"
                  THEN Return(Parser_advance(p), Err("Trailing comma not allowed"))
                  ELSE Call(Parser_advance(p), "parse_value")
        ELSE IF ~first THEN Return(p, Err("Expected ',' or ']'"))
        ELSE Call(p, "parse_value")

\* parse_array whose arm `_ if !first` goes round the loop again
ParseArrayLoop_IgnoresMissingSeparator(p, first) ==
    LET token == Parser_peek(p)
    IN  IF token = NoToken THEN Return(p, Err("Unexpected end of input"))
        ELSE IF token.type = "RightBracket" THEN Return(Parser_advance(p), Ok)
        ELSE IF token.type = "Comma" /\ ~first
             THEN IF Parser_peek(Parser_advance(p)).type = "RightBracket"
                  THEN Return(Parser_advance(p), Err("Trailing comma not allowed"))
                  ELSE Call(Parser_advance(p), "parse_value")
        ELSE IF ~first THEN Continue(p)
        ELSE Call(p, "parse_value")

\* parse_array without the look at the token after a comma
ParseArrayLoop_NoTrailingCheck(p, first) ==
    LET token == Parser_peek(p)
    IN  IF token = NoToken THEN Return(p, Err("Unexpected end of input"))
        ELSE IF token.type = "RightBracket" THEN Return(Parser_advance(p), Ok)
        ELSE IF token.type = "Comma" /\ ~first THEN Call(Parser_advance(p), "parse_value")
        ELSE IF ~first THEN Return(p, Err("Expected ',' or ']'"))
        ELSE Call(p, "parse_value")

\* parse_array, one iteration of the loop up to its call of parse_value
ParseArrayLoop(p, first) ==
    LET token == Parser_peek(p)
    IN  IF token = NoToken THEN Return(p, Err("Unexpected end of input"))
        ELSE IF token.type = "RightBracket" /\ first THEN Return(Parser_advance(p), Ok)
        ELSE IF token.type = "RightBracket" THEN Return(Parser_advance(p), Ok)
        ELSE IF token.type = "Comma" /\ ~first
             THEN IF Parser_peek(Parser_advance(p)).type = "RightBracket"
                  THEN Return(Parser_advance(p), Err("Trailing comma not allowed"))
                  ELSE Call(Parser_advance(p), "parse_value")
        ELSE IF ~first THEN Return(p, Err("Expected ',' or ']'"))
        ELSE Call(p, "parse_value")

\* parse_object taking either opening delimiter
ParseObjectOpen_AnyOpener(p) ==
    IF Parser_peek(p).type \in {"LeftBrace", "LeftBracket"} THEN Continue(Parser_advance(p))
    ELSE Return(p, Err("Expected '{'"))

\* parse_object, "Expect opening brace"
ParseObjectOpen(p) ==
    IF Parser_peek(p).type = "LeftBrace" THEN Continue(Parser_advance(p))
    ELSE Return(p, Err("Expected '{'"))

\* parse_object that takes an object where a pair is expected
ParseObjectPair_ObjectAsPair(p) ==
    IF Parser_peek(p).type = "LeftBrace" THEN Call(p, "parse_value")
    ELSE IF Parser_peek(p).type # "String" THEN Return(p, Err("Expected string key"))
    ELSE IF Parser_peek(Parser_advance(p)).type # "Colon"
         THEN Return(Parser_advance(p), Err("Expected ':'"))
    ELSE Call(Parser_advance(Parser_advance(p)), "parse_value")

\* parse_object with another wording for the missing colon
ParseObjectPair_OtherWording(p) ==
    IF Parser_peek(p).type # "String" THEN Return(p, Err("Expected string key"))
    ELSE IF Parser_peek(Parser_advance(p)).type # "Colon"
         THEN Return(Parser_advance(p), Err("Expected colon"))
    ELSE Call(Parser_advance(Parser_advance(p)), "parse_value")

\* parse_object that takes any leaf value as a key
ParseObjectPair_AnyLeafKey(p) ==
    IF Parser_peek(p).type \notin {"String", "Number", "Boolean", "Null"}
    THEN Return(p, Err("Expected string key"))
    ELSE IF Parser_peek(Parser_advance(p)).type # "Colon"
         THEN Return(Parser_advance(p), Err("Expected ':'"))
    ELSE Call(Parser_advance(Parser_advance(p)), "parse_value")

\* parse_object that goes on to the value without asking for the colon
ParseObjectPair_ColonOptional(p) ==
    IF Parser_peek(p).type # "String" THEN Return(p, Err("Expected string key"))
    ELSE IF Parser_peek(Parser_advance(p)).type # "Colon"
         THEN Call(Parser_advance(p), "parse_value")
    ELSE Call(Parser_advance(Parser_advance(p)), "parse_value")

\* parse_object, "Parse key", "Parse colon" and the call of parse_value
ParseObjectPair(p) ==
    IF Parser_peek(p).type # "String" THEN Return(p, Err("Expected string key"))
    ELSE IF Parser_peek(Parser_advance(p)).type # "Colon"
         THEN Return(Parser_advance(p), Err("Expected ':'"))
    ELSE Call(Parser_advance(Parser_advance(p)), "parse_value")

\* parse_object with the arm `_ if !first` tried before the closing brace
ParseObjectLoop_SeparatorBeforeCloser(p, first) ==
    LET token == Parser_peek(p)
    IN  IF token = NoToken THEN Return(p, Err("Unexpected end of input"))
        ELSE IF token.type = "Comma" /\ ~first
             THEN IF Parser_peek(Parser_advance(p)).type = "RightBrace"
                  THEN Return(Parser_advance(p), Err("Trailing comma not allowed"))
                  ELSE ParseObjectPair(Parser_advance(p))
        ELSE IF ~first THEN Return(p, Err("Expected ',' or '}'"))
        ELSE IF token.type = "RightBrace" THEN Return(Parser_advance(p), Ok)
        ELSE ParseObjectPair(p)

\* parse_object without the arm `_ if !first`
ParseObjectLoop_NoSeparatorCheck(p, first) ==
    LET token == Parser_peek(p)
    IN  IF token = NoToken THEN Return(p, Err("Unexpected end of input"))
        ELSE IF token.type = "RightBrace" THEN Return(Parser_advance(p), Ok)
        ELSE IF token.type = "Comma" /\ ~first
             THEN IF Parser_peek(Parser_advance(p)).type = "RightBrace"
                  THEN Return(Parser_advance(p), Err("Trailing comma not allowed"))
                  ELSE ParseObjectPair(Parser_advance(p))
        ELSE ParseObjectPair(p)

\* parse_object whose loop, out of tokens, falls through to the key check
ParseObjectLoop_NoEndCheck(p, first) ==
    LET token == Parser_peek(p)
    IN  IF token = NoToken THEN ParseObjectPair(p)
        ELSE IF token.type = "RightBrace" THEN Return(Parser_advance(p), Ok)
        ELSE IF token.type = "Comma" /\ ~first
             THEN IF Parser_peek(Parser_advance(p)).type = "RightBrace"
                  THEN Return(Parser_advance(p), Err("Trailing comma not allowed"))
                  ELSE ParseObjectPair(Parser_advance(p))
        ELSE IF ~first THEN Return(p, Err("Expected ',' or '}'"))
        ELSE ParseObjectPair(p)

\* parse_object, one iteration of the loop up to its call of parse_value
ParseObjectLoop(p, first) ==
    LET token == Parser_peek(p)
    IN  IF token = NoToken THEN Return(p, Err("Unexpected end of input"))
        ELSE IF token.type = "RightBrace" /\ first THEN Return(Parser_advance(p), Ok)
        ELSE IF token.type = "RightBrace" THEN Return(Parser_advance(p), Ok)
        ELSE IF token.type = "Comma" /\ ~first
             THEN IF Parser_peek(Parser_advance(p)).type = "RightBrace"
                  THEN Return(Parser_advance(p), Err("Trailing comma not allowed"))
                  ELSE ParseObjectPair(Parser_advance(p))
        ELSE IF ~first THEN Return(p, Err("Expected ',' or '}'"))
        ELSE ParseObjectPair(p)

Top == stack[Len(stack)]
Pop == SubSeq(stack, 1, Len(stack) - 1)
SetTop(f) == [stack EXCEPT ![Len(stack)] = f]

Parsing == pc = "parse" /\ stack # <<>>

\* the effect of one step r of the innermost call, which goes on at nextpc
\* after a Continue and at waitpc when the function it calls returns
Do(r, nextpc, waitpc) ==
    /\ parser' = r.parser
    /\ IF r.call # ""
       THEN /\ stack' = Append(SetTop([Top EXCEPT !.pc = waitpc]), Frame(r.call, r.parser.position))
            /\ ret' = NoResult
       ELSE IF r.res # NoResult
       THEN /\ stack' = Pop
            /\ ret' = r.res
       ELSE /\ stack' = SetTop([Top EXCEPT !.pc = nextpc])
            /\ ret' = NoResult
    /\ UNCHANGED <<lexer, lexed, lexret, pc, result, out, rowc, staged>>

\* parse_value: the match on the next token
ParseValue ==
    /\ Parsing
    /\ Top.fn = "parse_value" /\ Top.pc = "start"
    /\ Do(Parser_parse_value(parser), "start", "tail")

\* parse_value returns what the parse_object or parse_array it called returned
ParseValueTail ==
    /\ Parsing
    /\ Top.fn = "parse_value" /\ Top.pc = "tail"
    /\ ret # NoResult
    /\ stack' = Pop
    /\ UNCHANGED <<lexer, lexed, lexret, parser, ret, pc, result, out, rowc, staged>>

ArrayOpen ==
    /\ Parsing
    /\ Top.fn = "parse_array" /\ Top.pc = "start"
    /\ Do(ParseArrayOpen(parser), "loop", "loop")

ArrayLoop ==
    /\ Parsing
    /\ Top.fn = "parse_array" /\ Top.pc = "loop"
    /\ Do(ParseArrayLoop(parser, Top.first), "loop", "value")

\* a caller that reports a failed value in its own words
AfterValue_OwnMessage(f, r) ==
    IF r.tag = "Err" THEN [return |-> TRUE, res |-> Err("Expected value"), frame |-> f]
    ELSE [return |-> FALSE, res |-> NoResult, frame |-> [f EXCEPT !.pc = "loop", !.first = FALSE]]

\* what `self.parse_value()?; first = false;` does with the value returned:
\* an Err returns from the caller, an Ok goes on with first cleared
AfterValue(f, r) ==
    IF r.tag = "Err" THEN [return |-> TRUE, res |-> r, frame |-> f]
    ELSE [return |-> FALSE, res |-> NoResult, frame |-> [f EXCEPT !.pc = "loop", !.first = FALSE]]

\* parse_array: `self.parse_value()?; first = false;`
ArrayValue ==
    /\ Parsing
    /\ Top.fn = "parse_array" /\ Top.pc = "value"
    /\ ret # NoResult
    /\ LET a == AfterValue(Top, ret)
       IN  /\ stack' = IF a.return THEN Pop ELSE SetTop(a.frame)
           /\ ret' = a.res
    /\ UNCHANGED <<lexer, lexed, lexret, parser, pc, result, out, rowc, staged>>

ObjectOpen ==
    /\ Parsing
    /\ Top.fn = "parse_object" /\ Top.pc = "start"
    /\ Do(ParseObjectOpen(parser), "loop", "loop")

ObjectLoop ==
    /\ Parsing
    /\ Top.fn = "parse_object" /\ Top.pc = "loop"
    /\ Do(ParseObjectLoop(parser, Top.first), "loop", "value")

\* parse_object: `self.parse_value()?; first = false;`
ObjectValue ==
    /\ Parsing
    /\ Top.fn = "parse_object" /\ Top.pc = "value"
    /\ ret # NoResult
    /\ LET a == AfterValue(Top, ret)
       IN  /\ stack' = IF a.return THEN Pop ELSE SetTop(a.frame)
           /\ ret' = a.res
    /\ UNCHANGED <<lexer, lexed, lexret, parser, pc, result, out, rowc, staged>>

---------------------------------------------------------------------------
(* the driver: tests::parse_json, and main from Lexer::new on *)

\* `lexer.lex_tokens()?` when lexing failed
ValidateLexErr ==
    /\ pc = "lex"
    /\ lexret.tag = "Err"
    /\ result' = lexret
    /\ pc' = "done"
    /\ UNCHANGED <<lexer, lexed, lexret, parser, stack, ret, out, rowc, staged>>

\* a driver that parses the tokens lexed before a lexical error
ValidateParse_ParsesAfterLexError ==
    /\ pc = "lex"
    /\ lexret # NoResult
    /\ parser' = Parser_new(lexed)
    /\ stack' = <<Frame("parse_object", 0)>>
    /\ pc' = "parse"
    /\ UNCHANGED <<lexer, lexed, lexret, ret, result, out, rowc, staged>>

\* Parser::new(tokens) and the call of parse_object
ValidateParse ==
    /\ pc = "lex"
    /\ lexret = Ok
    /\ parser' = Parser_new(lexed)
    /\ stack' = <<Frame("parse_object", 0)>>
    /\ pc' = "parse"
    /\ UNCHANGED <<lexer, lexed, lexret, ret, result, out, rowc, staged>>

\* the top-level parse_object returned
ValidateReturn ==
    /\ pc = "parse"
    /\ stack = <<>>
    /\ result' = ret
    /\ pc' = "done"
    /\ UNCHANGED <<lexer, lexed, lexret, parser, stack, ret, out, rowc, staged>>

\* main has printed nothing and has not exited
Running == [stdout |-> <<>>, code |-> -1]

\* println!(...) of the pieces, then process::exit(code)
Exit(pieces, code) == [stdout |-> pieces \o <<"\n">>, code |-> code]

\* main whose parser arm prints the message and exits with 0
MainReturn_ExitsZero ==
    /\ pc = "parse"
    /\ stack = <<>>
    /\ out' = IF ret = Ok THEN Exit(<<"Valid JSON">>, 0)
              ELSE Exit(<<"Invalid JSON: ", ret.msg>>, 0)
    /\ pc' = "exit"
    /\ UNCHANGED <<lexer, lexed, lexret, parser, stack, ret, result, rowc, staged>>

\* main: the Err arm of `match lexer.lex_tokens()`
MainLexErr ==
    /\ pc = "lex"
    /\ lexret.tag = "Err"
    /\ out' = Exit(<<"Invalid JSON: ", lexret.msg>>, 1)
    /\ pc' = "exit"
    /\ UNCHANGED <<lexer, lexed, lexret, parser, stack, ret, result, rowc, staged>>

\* main: `match parser.parse_object()`
MainReturn ==
    /\ pc = "parse"
    /\ stack = <<>>
    /\ out' = IF ret = Ok THEN Exit(<<"Valid JSON">>, 0)
              ELSE Exit(<<"Invalid JSON: ", ret.msg>>, 1)
    /\ pc' = "exit"
    /\ UNCHANGED <<lexer, lexed, lexret, parser, stack, ret, result, rowc, staged>>

---------------------------------------------------------------------------
(* build_rowc: count_chars.  A character is its code point, a file the
   bytes of its content. *)

NoCount == [tag |-> "None", n |-> 0]
OkCount(n) == [tag |-> "Ok", n |-> n]
\* the io::Error of a read_to_string whose bytes are not UTF-8
InvalidData == [tag |-> "Err", n |-> 0]

\* no file is being counted
NoFile == [file |-> <<>>, pc |-> "idle", result |-> NoCount]

\* str::as_bytes on one character: its UTF-8 encoding
EncodeUtf8(c) ==
    IF c < 128 THEN <<c>>
    ELSE IF c < 2048 THEN <<192 + (c \div 64), 128 + (c % 64)>>
    ELSE IF c < 65536 THEN <<224 + (c \div 4096), 128 + ((c \div 64) % 64), 128 + (c % 64)>>
    ELSE <<240 + (c \div 262144), 128 + ((c \div 4096) % 64),
           128 + ((c \div 64) % 64), 128 + (c % 64)>>

\* str::as_bytes
RECURSIVE as_bytes(_)
as_bytes(s) == IF s = <<>> THEN <<>> ELSE EncodeUtf8(Head(s)) \o as_bytes(Tail(s))

Continuation(b) == b >= 128 /\ b <= 191

\* how many bytes the character that begins with the bytes b at index i
\* takes, 0 when they are not the UTF-8 encoding of a character
Utf8Width(b, i) ==
    LET b0 == b[i]
        At(k) == IF i + k <= Len(b) THEN b[i + k] ELSE 0
    IN  IF b0 < 128 THEN 1
        ELSE IF b0 >= 194 /\ b0 <= 223
        THEN IF Continuation(At(1)) THEN 2 ELSE 0
        ELSE IF b0 >= 224 /\ b0 <= 239
        THEN IF /\ Continuation(At(1)) /\ Continuation(At(2))
                /\ b0 = 224 => At(1) >= 160
                /\ b0 = 237 => At(1) <= 159
             THEN 3 ELSE 0
        ELSE IF b0 >= 240 /\ b0 <= 244
        THEN IF /\ Continuation(At(1)) /\ Continuation(At(2)) /\ Continuation(At(3))
                /\ b0 = 240 => At(1) >= 144
                /\ b0 = 244 => At(1) <= 143
             THEN 4 ELSE 0
        ELSE 0

\* the characters of the bytes b from index i on counted onto n, or
\* InvalidData: fs::read_to_string, then chars().count()
RECURSIVE CharsCount(_, _, _)
CharsCount(b, i, n) ==
    IF i > Len(b) THEN OkCount(n)
    ELSE IF Utf8Width(b, i) = 0 THEN InvalidData
    ELSE CharsCount(b, i + Utf8Width(b, i), n + 1)

count_chars(file) == CharsCount(file, 1, 0)

\* count_chars(Input::File(path)) on the file of the state
CountChars ==
    /\ rowc.pc = "call"
    /\ rowc' = [rowc EXCEPT !.pc = "done", !.result = count_chars(rowc.file)]
    /\ UNCHANGED <<lexer, lexed, lexret, parser, stack, ret, pc, result, out, staged>>

---------------------------------------------------------------------------
(* The validators of the earlier steps, step_1.rs to step_4.rs, each as the
   function from a text to what its lexer and parser return for it.  The
   struct Lexer and the struct Parser of step_2.rs to step_4.rs have the
   peek and advance of main.rs, step_3.rs and step_4.rs its read_while,
   lex_number and lex_identifier, and step_4.rs its lex_string and
   lex_tokens. *)

Stages == {"step_1", "step_2", "step_3", "step_4"}

\* no validator of an earlier step has been run on the text
NotStaged == [s \in Stages |-> NoResult]

\* step_1.rs, lex: the loop over input.chars(), from the i-th character on
RECURSIVE Step1_LexLoop(_, _, _)
Step1_LexLoop(input, i, tokens) ==
    IF i > Len(input) THEN [res |-> Ok, tokens |-> tokens]
    ELSE LET c == input[i]
         IN  IF c = "{" THEN Step1_LexLoop(input, i + 1, Append(tokens, Tok("LeftBrace")))
             ELSE IF c = "}" THEN Step1_LexLoop(input, i + 1, Append(tokens, Tok("RightBrace")))
             ELSE IF is_whitespace(c) THEN Step1_LexLoop(input, i + 1, tokens)
             ELSE [res |-> Err("Invalid character found"), tokens |-> <<>>]

Step1_lex(input) == Step1_LexLoop(input, 1, <<>>)

Step1_parse(tokens) ==
    IF Len(tokens) # 2 THEN Err("Invalid JSON structure.")
    ELSE IF tokens[1] # Tok("LeftBrace") \/ tokens[2] # Tok("RightBrace")
    THEN Err("Invalid JSON structure.")
    ELSE Ok

Step1_validate(text) ==
    LET l == Step1_lex(text)
    IN  IF l.res # Ok THEN l.res ELSE Step1_parse(l.tokens)

\* step_2.rs, lex_string after the opening quote
RECURSIVE Step2_LexStringLoop(_, _)
Step2_LexStringLoop(l, acc) ==
    LET c == Lexer_peek(l)
    IN  CASE c = NoChar -> [lexer |-> l, res |-> Err("Unterminated string literal"), str |-> <<>>]
          [] c = "\"" -> [lexer |-> Lexer_advance(l), res |-> Ok, str |-> acc]
          [] c = "\\" -> [lexer |-> l, res |-> Err("Error sequences not yet supported"), str |-> <<>>]
          [] c = "\n" -> [lexer |-> l, res |-> Err("Unterminated string literal"), str |-> <<>>]
          [] OTHER -> Step2_LexStringLoop(Lexer_advance(l), Append(acc, c))

Step2_lex_string(l) == Step2_LexStringLoop(Lexer_advance(l), <<>>)

RECURSIVE Step2_lex_tokens(_, _)
Step2_lex_tokens(l, tokens) ==
    LET c == Lexer_peek(l)
    IN  IF c = NoChar THEN [res |-> Ok, tokens |-> tokens]
        ELSE IF c \in {"{", "}", ":", ","}
        THEN Step2_lex_tokens(Lexer_advance(l), Append(tokens, StructuralToken(c)))
        ELSE IF c = "\""
        THEN LET r == Step2_lex_string(l)
             IN  IF r.res = Ok THEN Step2_lex_tokens(r.lexer, Append(tokens, StringTok(r.str)))
                 ELSE [res |-> r.res, tokens |-> <<>>]
        ELSE IF is_whitespace(c) THEN Step2_lex_tokens(Lexer_advance(l), tokens)
        ELSE [res |-> Err("Invalid character in JSON"), tokens |-> <<>>]

\* step_2.rs, parse_object: the loop, from the parser p with the flag `first`
RECURSIVE Step2_ParseObjectLoop(_, _)
Step2_ParseObjectLoop(p, first) ==
    LET t == Parser_peek(p)
        comma == t.type = "Comma" /\ ~first
        q == IF comma THEN Parser_advance(p) ELSE p
        q1 == Parser_advance(q)
        q2 == Parser_advance(q1)
    IN  IF t = NoToken THEN Err("Unexpected end of input")
        ELSE IF t.type = "RightBrace" THEN Ok
        ELSE IF comma /\ Parser_peek(q).type = "RightBrace" THEN Err("Trailing comma not allowed")
        ELSE IF ~comma /\ ~first THEN Err("Expected ',' or '}'")
        ELSE IF Parser_peek(q).type # "String" THEN Err("Expected string key")
        ELSE IF Parser_peek(q1).type # "Colon" THEN Err("Expected ':'")
        ELSE IF Parser_peek(q2).type # "String" THEN Err("Expected string value")
        ELSE Step2_ParseObjectLoop(Parser_advance(q2), FALSE)

Step2_parse_object(p) ==
    IF Parser_peek(p).type = "LeftBrace" THEN Step2_ParseObjectLoop(Parser_advance(p), TRUE)
    ELSE Err("Expected '{'")

Step2_validate(text) ==
    LET l == Step2_lex_tokens(Lexer_new(text), <<>>)
    IN  IF l.res # Ok THEN l.res ELSE Step2_parse_object(Parser_new(l.tokens))

\* step_3.rs, lex_string after the opening quote
RECURSIVE Step3_LexStringLoop(_, _)
Step3_LexStringLoop(l, acc) ==
    LET c == Lexer_peek(l)
    IN  CASE c = NoChar -> [lexer |-> l, res |-> Err("Unterminated string literal"), str |-> <<>>]
          [] c = "\"" -> [lexer |-> Lexer_advance(l), res |-> Ok, str |-> acc]
          [] c = "\\" -> [lexer |-> l, res |-> Err("Error sequences not yet supported"), str |-> <<>>]
          [] c = "\n" -> [lexer |-> l, res |-> Err("Unterminated string literal"), str |-> <<>>]
          [] OTHER -> Step3_LexStringLoop(Lexer_advance(l), Append(acc, c))

Step3_lex_string(l) == Step3_LexStringLoop(Lexer_advance(l), <<>>)

RECURSIVE Step3_lex_tokens(_, _)
Step3_lex_tokens(l, tokens) ==
    LET c == Lexer_peek(l)
    IN  IF c = NoChar THEN [res |-> Ok, tokens |-> tokens]
        ELSE IF c \in {"{", "}", ":", ","}
        THEN Step3_lex_tokens(Lexer_advance(l), Append(tokens, StructuralToken(c)))
        ELSE IF c = "\""
        THEN LET r == Step3_lex_string(l)
             IN  IF r.res = Ok THEN Step3_lex_tokens(r.lexer, Append(tokens, StringTok(r.str)))
                 ELSE [res |-> r.res, tokens |-> <<>>]
        ELSE IF is_ascii_digit(c) \/ c = "-"
        THEN LET r == Lexer_lex_number(l)
             IN  IF r.res = Ok THEN Step3_lex_tokens(r.lexer, Append(tokens, NumberTok))
                 ELSE [res |-> r.res, tokens |-> <<>>]
        ELSE IF is_ascii_alphabetic(c)
        THEN LET r == Lexer_lex_identifier(l)
             IN  IF r.res = Ok THEN Step3_lex_tokens(r.lexer, Append(tokens, r.token))
                 ELSE [res |-> r.res, tokens |-> <<>>]
        ELSE IF is_whitespace(c) THEN Step3_lex_tokens(Lexer_advance(l), tokens)
        ELSE [res |-> Err("Invalid character in JSON"), tokens |-> <<>>]

\* step_3.rs, parse_object with a value that is a number alone
RECURSIVE Step3_ParseObjectLoop_NumberValueOnly(_, _)
Step3_ParseObjectLoop_NumberValueOnly(p, first) ==
    LET t == Parser_peek(p)
        comma == t.type = "Comma" /\ ~first
        q == IF comma THEN Parser_advance(p) ELSE p
        q1 == Parser_advance(q)
        q2 == Parser_advance(q1)
    IN  IF t = NoToken THEN Err("Unexpected end of input")
        ELSE IF t.type = "RightBrace" THEN Ok
        ELSE IF comma /\ Parser_peek(q).type = "RightBrace" THEN Err("Trailing comma not allowed")
        ELSE IF ~comma /\ ~first THEN Err("Expected ',' or '}'")
        ELSE IF Parser_peek(q).type # "String" THEN Err("Expected string key")
        ELSE IF Parser_peek(q1).type # "Colon" THEN Err("Expected ':'")
        ELSE IF Parser_peek(q2).type # "Number" THEN Err("Expected value")
        ELSE Step3_ParseObjectLoop_NumberValueOnly(Parser_advance(q2), FALSE)

\* step_3.rs, parse_object: the loop, from the parser p with the flag `first`
RECURSIVE Step3_ParseObjectLoop(_, _)
Step3_ParseObjectLoop(p, first) ==
    LET t == Parser_peek(p)
        comma == t.type = "Comma" /\ ~first
        q == IF comma THEN Parser_advance(p) ELSE p
        q1 == Parser_advance(q)
        q2 == Parser_advance(q1)
    IN  IF t = NoToken THEN Err("Unexpected end of input")
        ELSE IF t.type = "RightBrace" THEN Ok
        ELSE IF comma /\ Parser_peek(q).type = "RightBrace" THEN Err("Trailing comma not allowed")
        ELSE IF ~comma /\ ~first THEN Err("Expected ',' or '}'")
        ELSE IF Parser_peek(q).type # "String" THEN Err("Expected string key")
        ELSE IF Parser_peek(q1).type # "Colon" THEN Err("Expected ':'")
        ELSE IF Parser_peek(q2).type \notin {"String", "Number", "Boolean", "Null"}
        THEN Err("Expected value")
        ELSE Step3_ParseObjectLoop(Parser_advance(q2), FALSE)

Step3_parse_object(p) ==
    IF Parser_peek(p).type = "LeftBrace" THEN Step3_ParseObjectLoop(Parser_advance(p), TRUE)
    ELSE Err("Expected '{'")

Step3_validate(text) ==
    LET l == Step3_lex_tokens(Lexer_new(text), <<>>)
    IN  IF l.res # Ok THEN l.res ELSE Step3_parse_object(Parser_new(l.tokens))

\* step_4.rs: parse_value, parse_array and parse_object call one another;
\* each gives the parser it leaves and what it returns
RECURSIVE Step4_parse_value(_)
RECURSIVE Step4_ParseArrayLoop(_, _)
RECURSIVE Step4_ParseObjectLoop(_, _)

Step4_parse_array(p) ==
    IF Parser_peek(p).type = "LeftBracket" THEN Step4_ParseArrayLoop(Parser_advance(p), TRUE)
    ELSE [parser |-> p, res |-> Err("Expected '['")]

Step4_parse_object(p) ==
    IF Parser_peek(p).type = "LeftBrace" THEN Step4_ParseObjectLoop(Parser_advance(p), TRUE)
    ELSE [parser |-> p, res |-> Err("Expected '{'")]

Step4_parse_value(p) ==
    LET t == Parser_peek(p).type
    IN  IF t = "LeftBrace" THEN Step4_parse_object(p)
        ELSE IF t = "LeftBracket" THEN Step4_parse_array(p)
        ELSE IF t \in {"String", "Number", "Boolean", "Null"}
        THEN [parser |-> Parser_advance(p), res |-> Ok]
        ELSE [parser |-> p, res |-> Err("Expected value")]

Step4_ParseArrayLoop(p, first) ==
    LET t == Parser_peek(p)
        comma == t.type = "Comma" /\ ~first
        q == IF comma THEN Parser_advance(p) ELSE p
    IN  IF t = NoToken THEN [parser |-> p, res |-> Err("Unexpected end of input")]
        ELSE IF t.type = "RightBracket" THEN [parser |-> Parser_advance(p), res |-> Ok]
        ELSE IF comma /\ Parser_peek(q).type = "RightBracket"
        THEN [parser |-> q, res |-> Err("Trailing comma not allowed")]
        ELSE IF ~comma /\ ~first THEN [parser |-> p, res |-> Err("Expected ',' or ']'")]
        ELSE LET v == Step4_parse_value(q)
             IN  IF v.res # Ok THEN v ELSE Step4_ParseArrayLoop(v.parser, FALSE)

Step4_ParseObjectLoop(p, first) ==
    LET t == Parser_peek(p)
        comma == t.type = "Comma" /\ ~first
        q == IF comma THEN Parser_advance(p) ELSE p
        q1 == Parser_advance(q)
        q2 == Parser_advance(q1)
    IN  IF t = NoToken THEN [parser |-> p, res |-> Err("Unexpected end of input")]
        ELSE IF t.type = "RightBrace" THEN [parser |-> Parser_advance(p), res |-> Ok]
        ELSE IF comma /\ Parser_peek(q).type = "RightBrace"
        THEN [parser |-> q, res |-> Err("Trailing comma not allowed")]
        ELSE IF ~comma /\ ~first THEN [parser |-> p, res |-> Err("Expected ',' or '}'")]
        ELSE IF Parser_peek(q).type # "String" THEN [parser |-> q, res |-> Err("Expected string key")]
        ELSE IF Parser_peek(q1).type # "Colon" THEN [parser |-> q1, res |-> Err("Expected ':'")]
        ELSE LET v == Step4_parse_value(q2)
             IN  IF v.res # Ok THEN v ELSE Step4_ParseObjectLoop(v.parser, FALSE)

Step4_validate(text) ==
    LET l == Lexer_lex_tokens(Lexer_new(text), <<>>)
    IN  IF l.res # Ok THEN l.res ELSE Step4_parse_object(Parser_new(l.tokens)).res

\* step_4.rs, main: what it prints and the code it exits with, from what
\* its lexer and parser returned
Step4_main(res) ==
    IF res = Ok THEN Exit(<<"Valid JSON">>, 0)
    ELSE Exit(<<"Invalid JSON: ", res.msg>>, 1)

\* the validator of one step is run on the text main.rs has finished with;
\* the steps are taken in their order
RunStep1 ==
    /\ pc \in {"done", "exit"}
    /\ staged["step_1"] = NoResult
    /\ staged' = [staged EXCEPT !["step_1"] = Step1_validate(lexer.input)]
    /\ UNCHANGED <<lexer, lexed, lexret, parser, stack, ret, pc, result, out, rowc>>

RunStep2 ==
    /\ staged["step_1"] # NoResult
    /\ staged["step_2"] = NoResult
    /\ staged' = [staged EXCEPT !["step_2"] = Step2_validate(lexer.input)]
    /\ UNCHANGED <<lexer, lexed, lexret, parser, stack, ret, pc, result, out, rowc>>

RunStep3 ==
    /\ staged["step_2"] # NoResult
    /\ staged["step_3"] = NoResult
    /\ staged' = [staged EXCEPT !["step_3"] = Step3_validate(lexer.input)]
    /\ UNCHANGED <<lexer, lexed, lexret, parser, stack, ret, pc, result, out, rowc>>

RunStep4 ==
    /\ staged["step_3"] # NoResult
    /\ staged["step_4"] = NoResult
    /\ staged' = [staged EXCEPT !["step_4"] = Step4_validate(lexer.input)]
    /\ UNCHANGED <<lexer, lexed, lexret, parser, stack, ret, pc, result, out, rowc>>

---------------------------------------------------------------------------
(* the texts and token sequences the validator is run on *)

\* at most MaxPieces pieces follow the opening of a text
MaxPieces == 2
\* at most MaxTail tokens follow the opening of a token sequence
MaxTail == 3

RECURSIVE Flatten(_)
Flatten(ss) == IF ss = <<>> THEN <<>> ELSE Head(ss) \o Flatten(Tail(ss))

SeqsUpTo(S, n) == UNION {[1..k -> S] : k \in 0..n}

\* the pieces a text is put together from: characters of every class the
\* lexer tells apart, and identifiers
Pieces ==
    {<<"{">>, <<"}">>, <<"[">>, <<"]">>, <<":">>, <<",">>,
     <<"\"">>, <<"k">>, <<"\\">>, <<"\n">>, <<" ">>,
     <<"0">>, <<"1">>, <<"-">>, <<".">>, <<"+">>, <<"e">>,
     <<"t", "r", "u", "e">>, <<"f", "a", "l", "s", "e">>, <<"n", "u", "l", "l">>,
     <<"T", "r", "u", "e">>, <<"F", "A", "L", "S", "E">>,
     <<"'">>, <<"u4E16">>}

\* how a text opens: nothing, a closed object, an open string, an object or
\* an array that awaits a value or a key
TextOpenings ==
    {<<>>,
     <<"{", "}">>,
     <<"{", "\"", "k">>,
     <<"{", "\"", "k", "\"", ":">>,
     <<"{", "\"", "k", "\"", ":", "[">>,
     <<"{", "\"", "k", "\"", ":", "[", "1", ",">>,
     <<"{", "\"", "k", "\"", ":", "1", ",">>}

\* the pieces that go on with or end a number
NumberPieces ==
    {<<"0">>, <<"1">>, <<"-">>, <<".">>, <<"+">>, <<"e">>, <<"E">>, <<"}">>, <<",">>, <<" ">>}

\* how a text opens whose object has a number being read as its value
NumberOpenings ==
    {<<"{", "\"", "k", "\"", ":", "1", ".">>,
     <<"{", "\"", "k", "\"", ":", "0", "0">>,
     <<"{", "\"", "k", "\"", ":", "-", "0">>}

\* braces are nested at most MaxBraces deep in the texts of braces alone
MaxBraces == 4

\* n opening braces followed by n closing braces
NestedBraces(n) == [i \in 1..(2 * n) |-> IF i <= n THEN "{" ELSE "}"]

BraceTexts == {NestedBraces(n) : n \in 1..MaxBraces}

\* the texts with at most n pieces after their opening
Texts(n) ==
    {o \o Flatten(ps) : o \in TextOpenings, ps \in SeqsUpTo(Pieces, n)}
    \cup {o \o Flatten(ps) : o \in NumberOpenings, ps \in SeqsUpTo(NumberPieces, n)}
    \cup BraceTexts

\* one piece for each arm of the loop of lex_tokens: a structural
\* character, a quote, whitespace, a digit, a keyword (twice in a row an
\* unknown identifier) and a character no arm takes
LexPieces ==
    {<<"{">>, <<"\"">>, <<" ">>, <<"1">>, <<"t", "r", "u", "e">>, <<"+">>}

\* how a text the lexer alone is run on opens: nothing, a token and
\* whitespace, an open string
LexOpenings == {<<>>, <<"{", " ">>, <<"\"">>}

\* the texts the lexer alone is run on
LexTexts == {o \o Flatten(ps) : o \in LexOpenings, ps \in SeqsUpTo(LexPieces, MaxPieces)}

\* a content has at most MaxChars characters, the content of
\* tests::test_count_chars aside
MaxChars == 3

\* characters of one, two, three and four bytes: H, LF, e acute, the two
\* ideographs of the test and an emoji
RowcChars == {72, 10, 233, 19990, 30028, 128512}

\* "Hello, " the two ideographs "!" LF: the content of tests::test_count_chars
TestContent == <<72, 101, 108, 108, 111, 44, 32, 19990, 30028, 33, 10>>

RowcContents == SeqsUpTo(RowcChars, MaxChars) \cup {TestContent}

\* the files counted: the bytes of the contents, and the bytes of the
\* content of the test cut short, some of them in the middle of a character
RowcFiles ==
    {as_bytes(s) : s \in RowcContents}
    \cup {SubSeq(as_bytes(TestContent), 1, k) : k \in 0..Len(as_bytes(TestContent))}

\* the tokens a token sequence is put together from
Tokens ==
    {Tok("LeftBrace"), Tok("RightBrace"), Tok("LeftBracket"), Tok("RightBracket"),
     Tok("Colon"), Tok("Comma"),
     StringTok(<<"k">>), NumberTok, BooleanTok(TRUE), BooleanTok(FALSE), NullTok}

LB == Tok("LeftBrace")
LK == Tok("LeftBracket")
Key == StringTok(<<"k">>)
Colon == Tok("Colon")
Comma == Tok("Comma")

\* how a token sequence opens: the beginning of an object, with objects and
\* arrays open to depth three and a value, a pair or a key awaited
TokenOpenings ==
    {<<>>,
     <<LB, Key, Colon>>,
     <<LB, Key, Colon, LK>>,
     <<LB, Key, Colon, LK, NumberTok, Comma>>,
     <<LB, Key, Colon, NumberTok, Comma>>,
     <<LB, Key, Colon, NumberTok, Comma, Key, Colon>>,
     <<LB, Key, Colon, LB, Key, Colon>>,
     <<LB, Key, Colon, LK, LK>>,
     <<LB, Key, Colon, LB, Key, Colon, LK>>}

\* the token sequences with at most n tokens after their opening
TokenSeqs(n) == {o \o ts : o \in TokenOpenings, ts \in SeqsUpTo(Tokens, n)}

\* the token sequences the parser alone is run on to its end: an opening
\* (nothing, an array awaiting a value, an object after a pair) and at most
\* MaxPieces tokens of every kind a loop tells apart
LiveOpenings == {<<>>, <<LB, Key, Colon, LK>>, <<LB, Key, Colon, NumberTok>>}

LiveTokens == {LB, Tok("RightBrace"), Tok("RightBracket"), Comma, NumberTok}

LiveTokenSeqs == {o \o ts : o \in LiveOpenings, ts \in SeqsUpTo(LiveTokens, MaxPieces)}

\* the pieces of the texts every step's validator is run on: structural
\* characters, a whole string, a number, a keyword, whitespace, an open
\* quote and a backslash
StagedPieces ==
    {<<"{">>, <<"}">>, <<"[">>, <<"]">>, <<",">>, <<":">>, <<"\"", "k", "\"">>,
     <<"1">>, <<"t", "r", "u", "e">>, <<" ">>, <<"\"">>, <<"\\">>}

\* how such a text opens: nothing, an open object, an object awaiting a
\* value, after a pair, after a comma, and an array awaiting a value
StagedOpenings ==
    {<<>>,
     <<"{">>,
     <<"{", "\"", "k", "\"", ":">>,
     <<"{", "\"", "k", "\"", ":", "\"", "k", "\"">>,
     <<"{", "\"", "k", "\"", ":", "\"", "k", "\"", ",">>,
     <<"{", "\"", "k", "\"", ":", "[">>}

StagedTexts(n) == {o \o Flatten(ps) : o \in StagedOpenings, ps \in SeqsUpTo(StagedPieces, n)}

\* validate(text), about to lex
Init ==
    /\ lexer \in {Lexer_new(text) : text \in Texts(MaxPieces)}
    /\ lexed = <<>>
    /\ lexret = NoResult
    /\ parser = Parser_new(<<>>)
    /\ stack = <<>>
    /\ ret = NoResult
    /\ pc = "lex"
    /\ result = NoResult
    /\ out = Running
    /\ rowc = NoFile
    /\ staged = NotStaged

\* the lexer alone: Lexer::new(text), lex_tokens about to run
LexInit ==
    /\ lexer \in {Lexer_new(text) : text \in LexTexts}
    /\ lexed = <<>>
    /\ lexret = NoResult
    /\ parser = Parser_new(<<>>)
    /\ stack = <<>>
    /\ ret = NoResult
    /\ pc = "lex"
    /\ result = NoResult
    /\ out = Running
    /\ rowc = NoFile
    /\ staged = NotStaged

\* build_rowc: count_chars is about to be called on a file
RowcInit ==
    /\ lexer = Lexer_new(<<>>)
    /\ lexed = <<>>
    /\ lexret = NoResult
    /\ parser = Parser_new(<<>>)
    /\ stack = <<>>
    /\ ret = NoResult
    /\ pc = "idle"
    /\ result = NoResult
    /\ out = Running
    /\ rowc \in {[file |-> f, pc |-> "call", result |-> NoCount] : f \in RowcFiles}
    /\ staged = NotStaged

\* the parser alone, on the token sequences of LiveTokenSeqs
ParseLiveInit ==
    /\ lexer = Lexer_new(<<>>)
    /\ lexed \in LiveTokenSeqs
    /\ lexret = Ok
    /\ parser = Parser_new(lexed)
    /\ stack = <<Frame("parse_object", 0)>>
    /\ ret = NoResult
    /\ pc = "parse"
    /\ result = NoResult
    /\ out = Running
    /\ rowc = NoFile
    /\ staged = NotStaged

\* the parser alone: lexing gave `tokens`, parse_object has been called
ParseInit ==
    /\ lexer = Lexer_new(<<>>)
    /\ lexed \in TokenSeqs(MaxTail)
    /\ lexret = Ok
    /\ parser = Parser_new(lexed)
    /\ stack = <<Frame("parse_object", 0)>>
    /\ ret = NoResult
    /\ pc = "parse"
    /\ result = NoResult
    /\ out = Running
    /\ rowc = NoFile
    /\ staged = NotStaged

LexNext ==
    \/ LexStructural
    \/ LexString
    \/ LexNumber
    \/ LexIdentifier
    \/ LexWhitespace
    \/ LexInvalid
    \/ LexEnd

ParseNext ==
    \/ ParseValue
    \/ ParseValueTail
    \/ ArrayOpen
    \/ ArrayLoop
    \/ ArrayValue
    \/ ObjectOpen
    \/ ObjectLoop
    \/ ObjectValue
    \/ ValidateReturn

Next ==
    \/ LexNext
    \/ ValidateLexErr
    \/ ValidateParse
    \/ ParseNext
    \/ MainLexErr
    \/ MainReturn

\* the lexer alone, on the texts of LexTexts; an iteration of the loop of
\* lex_tokens that can run does run
LexSpec == LexInit /\ [][LexNext]_vars /\ WF_vars(LexNext)

Spec == Init /\ [][Next]_vars

\* the parser alone; a step of the innermost call that can run does run
ParseLiveSpec == ParseLiveInit /\ [][ParseNext]_vars /\ WF_vars(ParseNext)

\* main.rs on a text, then the validator of every earlier step on the same text
StagedInit ==
    /\ lexer \in {Lexer_new(text) : text \in StagedTexts(MaxPieces)}
    /\ lexed = <<>>
    /\ lexret = NoResult
    /\ parser = Parser_new(<<>>)
    /\ stack = <<>>
    /\ ret = NoResult
    /\ pc = "lex"
    /\ result = NoResult
    /\ out = Running
    /\ rowc = NoFile
    /\ staged = NotStaged

StagedNext ==
    \/ Next
    \/ RunStep1
    \/ RunStep2
    \/ RunStep3
    \/ RunStep4

StagedSpec == StagedInit /\ [][StagedNext]_vars

RowcNext == CountChars

RowcSpec == RowcInit /\ [][RowcNext]_vars

ParseSpec == ParseInit /\ [][ParseNext]_vars

---------------------------------------------------------------------------
(* the grammar of the specification, section 4.2, as a recognizer of whole
   token sequences:
     value  := object | array | string | number | boolean | null
     object := '{' ( pair (',' pair)* )? '}',  pair := string ':' value
     array  := '[' ( value (',' value)* )? ']'                           *)

RECURSIVE IsValue(_)
RECURSIVE IsObject(_)
RECURSIVE IsArray(_)
RECURSIVE IsPairs(_)
RECURSIVE IsValues(_)

IsLeaf(s) == Len(s) = 1 /\ s[1].type \in {"String", "Number", "Boolean", "Null"}

IsValue(s) == IsLeaf(s) \/ IsObject(s) \/ IsArray(s)

IsPair(s) ==
    /\ Len(s) >= 3
    /\ s[1].type = "String"
    /\ s[2].type = "Colon"
    /\ IsValue(SubSeq(s, 3, Len(s)))

IsPairs(s) ==
    \/ IsPair(s)
    \/ \E i \in 2..(Len(s) - 1) :
          /\ s[i].type = "Comma"
          /\ IsPair(SubSeq(s, 1, i - 1))
          /\ IsPairs(SubSeq(s, i + 1, Len(s)))

IsValues(s) ==
    \/ IsValue(s)
    \/ \E i \in 2..(Len(s) - 1) :
          /\ s[i].type = "Comma"
          /\ IsValue(SubSeq(s, 1, i - 1))
          /\ IsValues(SubSeq(s, i + 1, Len(s)))

IsObject(s) ==
    /\ Len(s) >= 2
    /\ s[1].type = "LeftBrace"
    /\ s[Len(s)].type = "RightBrace"
    /\ Len(s) = 2 \/ IsPairs(SubSeq(s, 2, Len(s) - 1))

IsArray(s) ==
    /\ Len(s) >= 2
    /\ s[1].type = "LeftBracket"
    /\ s[Len(s)].type = "RightBracket"
    /\ Len(s) = 2 \/ IsValues(SubSeq(s, 2, Len(s) - 1))

\* the number of containers open after the first i tokens of s
RECURSIVE OpenAt(_, _)
OpenAt(s, i) ==
    IF i = 0 THEN 0
    ELSE OpenAt(s, i - 1)
         + (IF s[i].type \in {"LeftBrace", "LeftBracket"} THEN 1 ELSE 0)
         - (IF s[i].type \in {"RightBrace", "RightBracket"} THEN 1 ELSE 0)

\* the deepest nesting of containers in s
NestingDepth(s) ==
    IF s = <<>> THEN 0
    ELSE CHOOSE d \in 0..Len(s) :
           /\ \E i \in 0..Len(s) : OpenAt(s, i) = d
           /\ \A i \in 0..Len(s) : OpenAt(s, i) <= d

Done == pc = "done"

---------------------------------------------------------------------------
(* C1: validate returns success only if the whole token sequence of the text
   is one object of the grammar, with no token left over after the closing
   brace of the top-level object. *)
C1_SuccessOnlyForWholeObject ==
    (Done /\ result = Ok) => IsObject(parser.tokens)

(* C2: for every token sequence that is a well-formed object of the grammar
   (objects, arrays, strings, numbers, true, false, null, nested), the
   parse_object the driver calls returns Ok(()). *)
C2_WellFormedAccepted ==
    (Done /\ IsObject(parser.tokens)) => result = Ok

\* a well-formed object nested three deep, with an array in it, was accepted
C2_Witness ==
    /\ Done
    /\ IsObject(parser.tokens)
    /\ result = Ok
    /\ NestingDepth(parser.tokens) >= 3
    /\ \E i \in 1..Len(parser.tokens) : parser.tokens[i].type = "LeftBracket"

---------------------------------------------------------------------------
(* the loop of a container: the innermost call is a parse_object or a
   parse_array at the top of an iteration of its loop *)

AtLoop ==
    /\ Parsing
    /\ Top.fn \in {"parse_object", "parse_array"}
    /\ Top.pc = "loop"

Closer(fn) == IF fn = "parse_object" THEN "RightBrace" ELSE "RightBracket"

SeparatorError(fn) ==
    IF fn = "parse_object" THEN "Expected ',' or '}'" ELSE "Expected ',' or ']'"

(* C3: in parse_object and in parse_array alike, a comma that follows an
   element and is itself followed at once by the closing delimiter of the
   container is consumed and the call fails with exactly
   "Trailing comma not allowed". *)
C3_TrailingCommaRejected ==
    [][(/\ AtLoop
        /\ ~Top.first
        /\ Parser_peek(parser).type = "Comma"
        /\ Parser_peek(Parser_advance(parser)).type = Closer(Top.fn))
       => (/\ ret' = Err("Trailing comma not allowed")
           /\ stack' = Pop
           /\ parser' = Parser_advance(parser))]_vars

\* an array nested in an object failed on its trailing comma
C3_Witness ==
    /\ pc = "parse"
    /\ ret = Err("Trailing comma not allowed")
    /\ parser.position >= 2
    /\ parser.tokens[parser.position].type = "Comma"
    /\ Parser_peek(parser).type = "RightBracket"

(* C4: after at least one element of a container, a next token that is
   neither a comma nor the container's own closing delimiter makes the call
   fail with "Expected ',' or '}'" in an object and "Expected ',' or ']'" in
   an array, and the token is not consumed. *)
C4_MissingSeparatorRejected ==
    [][(/\ AtLoop
        /\ ~Top.first
        /\ Parser_peek(parser) # NoToken
        /\ Parser_peek(parser).type \notin {"Comma", Closer(Top.fn)})
       => (/\ ret' = Err(SeparatorError(Top.fn))
           /\ stack' = Pop
           /\ parser' = parser)]_vars

\* an object failed on a key that follows a pair with no comma between
C4_Witness ==
    /\ pc = "parse"
    /\ ret = Err("Expected ',' or '}'")
    /\ Parser_peek(parser).type = "String"
    /\ OpenAt(parser.tokens, parser.position) >= 1

(* C5, as claimed: whenever the parser runs out of tokens inside an open
   container (the failing call found no token at the cursor; a container
   opened by the consumed tokens has not been closed), the failure is
   exactly "Unexpected end of input", whatever the point of truncation. *)
C5_EveryTruncationIsEndOfInput ==
    (/\ pc = "parse"
     /\ ret.tag = "Err"
     /\ parser.position = Len(parser.tokens)
     /\ OpenAt(parser.tokens, parser.position) >= 1)
    => ret.msg = "Unexpected end of input"

(* C5, amended: whenever the parser finds no token at the top of an
   iteration of an object's or an array's loop (right after the opening
   delimiter, or right after a complete element), the call fails with
   exactly "Unexpected end of input" and consumes nothing. *)
C5_EndOfInputAtLoopTop ==
    [][(AtLoop /\ Parser_peek(parser) = NoToken)
       => (/\ ret' = Err("Unexpected end of input")
           /\ stack' = Pop
           /\ parser' = parser)]_vars

\* the tokens ran out after an element of an array nested in an object
C5_Witness ==
    /\ pc = "parse"
    /\ ret = Err("Unexpected end of input")
    /\ parser.position = Len(parser.tokens)
    /\ OpenAt(parser.tokens, parser.position) >= 2
    /\ parser.tokens[parser.position].type = "Number"

(* C6: when lexing succeeds and the token sequence is empty, or its first
   token is not LeftBrace, validate fails with exactly "Expected '{'" and the
   parser has consumed no token. *)
C6_TopLevelMustBeObject ==
    (/\ Done
     /\ lexret = Ok
     /\ lexed = <<>> \/ lexed[1].type # "LeftBrace")
    => (result = Err("Expected '{'") /\ parser.position = 0)

\* a text of whitespace only was rejected
C6_Witness ==
    /\ Done
    /\ lexret = Ok
    /\ lexed = <<>>
    /\ Len(lexer.input) > 0
    /\ result = Err("Expected '{'")

---------------------------------------------------------------------------
(* the text ahead of the lexer, read off the input without the lexer *)

Input == lexer.input
Cursor == lexer.position

\* the index of the last character of the longest run of ASCII letters that
\* starts at the cursor
LetterRunEnd ==
    CHOOSE j \in Cursor..Len(Input) :
        /\ \A i \in (Cursor + 1)..j : Input[i] \in AsciiLower \cup AsciiUpper
        /\ j = Len(Input) \/ Input[j + 1] \notin AsciiLower \cup AsciiUpper

\* with the cursor at an opening quote: the index of the first quote,
\* backslash or newline after it, 0 when there is none
StringStop ==
    LET S == {j \in (Cursor + 2)..Len(Input) : Input[j] \in {"\"", "\\", "\n"}}
    IN  IF S = {} THEN 0 ELSE CHOOSE j \in S : \A k \in S : j <= k

AtQuote == Lexing /\ Lexer_peek(lexer) = "\""

(* C7: at an ASCII letter outside a string the lexer consumes the longest
   run of ASCII letters; the run true gives Boolean(true), false gives
   Boolean(false), null gives Null, compared case-sensitively, and every
   other run makes lexing fail with "Invalid identifier". *)
C7_IdentifierIsKeywordOrError ==
    [][(/\ Lexing
        /\ Lexer_peek(lexer) \in AsciiLower \cup AsciiUpper)
       => LET run == SubSeq(Input, Cursor + 1, LetterRunEnd)
          IN  /\ lexer'.position = LetterRunEnd
              /\ CASE run = <<"t", "r", "u", "e">> ->
                        lexed' = Append(lexed, BooleanTok(TRUE)) /\ lexret' = NoResult
                   [] run = <<"f", "a", "l", "s", "e">> ->
                        lexed' = Append(lexed, BooleanTok(FALSE)) /\ lexret' = NoResult
                   [] run = <<"n", "u", "l", "l">> ->
                        lexed' = Append(lexed, NullTok) /\ lexret' = NoResult
                   [] OTHER ->
                        lexed' = lexed /\ lexret' = Err("Invalid identifier")]_vars

\* the run truefalse was consumed whole and rejected
C7_Witness ==
    /\ lexret = Err("Invalid identifier")
    /\ Cursor >= 9
    /\ SubSeq(Input, Cursor - 8, Cursor) = <<"t", "r", "u", "e", "f", "a", "l", "s", "e">>

(* C8: outside a string, a character that is none of { } [ ] : , " and is
   no ASCII digit, no '-', no ASCII letter and no whitespace makes lexing
   fail with exactly "Invalid character in JSON". *)
C8_InvalidCharacterRejected ==
    [][(/\ Lexing
        /\ Lexer_peek(lexer) # NoChar
        /\ Lexer_peek(lexer) \notin
              {"{", "}", "[", "]", ":", ",", "\"", "-"} \cup AsciiDigit
              \cup AsciiLower \cup AsciiUpper \cup WhiteSpace)
       => (lexret' = Err("Invalid character in JSON") /\ lexed' = lexed)]_vars

\* lexing failed at a single quote
C8_Witness ==
    /\ lexret = Err("Invalid character in JSON")
    /\ Lexer_peek(lexer) = "'"

(* C9: in a string literal, a backslash met before the closing quote and
   before any raw newline makes lexing fail with
   "Escape sequences not yet supported"; no String token holds a backslash. *)
C9_EscapeRejected ==
    /\ [](\A i \in 1..Len(lexed) : \A j \in 1..Len(lexed[i].str) : lexed[i].str[j] # "\\")
    /\ [][(AtQuote /\ StringStop # 0 /\ Input[StringStop] = "\\")
          => (lexret' = Err("Escape sequences not yet supported") /\ lexed' = lexed)]_vars

\* lexing failed at a backslash that follows a character of the string
C9_Witness ==
    /\ lexret = Err("Escape sequences not yet supported")
    /\ Lexer_peek(lexer) = "\\"
    /\ Cursor >= 2
    /\ Input[Cursor] # "\""

(* C10: in a string literal, a raw newline or the end of the input met
   before a closing quote makes lexing fail with
   "Unterminated string literal"; a String token is produced only when a
   closing quote is found, and its payload is exactly the characters
   between the two quotes. *)
C10_StringIsClosedOrError ==
    [][AtQuote
       => /\ (StringStop = 0 \/ Input[StringStop] = "\n")
                => (lexret' = Err("Unterminated string literal") /\ lexed' = lexed)
          /\ (StringStop # 0 /\ Input[StringStop] = "\"")
                => /\ lexed' = Append(lexed, StringTok(SubSeq(Input, Cursor + 2, StringStop - 1)))
                   /\ lexer'.position = StringStop
                   /\ lexret' = NoResult
          /\ lexed' # lexed => (StringStop # 0 /\ Input[StringStop] = "\"")]_vars

\* lexing failed at a raw newline that follows a character of the string
C10_Witness ==
    /\ lexret = Err("Unterminated string literal")
    /\ Lexer_peek(lexer) = "\n"
    /\ Cursor >= 2
    /\ Input[Cursor] # "\""

---------------------------------------------------------------------------
(* a floating-point literal, stated by its parts:
     Sign? (Digit+ | Digit+ '.' Digit* | Digit* '.' Digit+) (('e'|'E') Sign? Digit+)? *)

AllDigits(s, a, b) == \A x \in a..b : s[x] \in AsciiDigit

\* s[a..b] is a mantissa: digits with at most one point and at least one digit
IsMantissa(s, a, b) ==
    \/ b >= a /\ AllDigits(s, a, b)
    \/ /\ b > a
       /\ \E d \in a..b : s[d] = "." /\ AllDigits(s, a, d - 1) /\ AllDigits(s, d + 1, b)

\* s[a..b] is an exponent
IsExponent(s, a, b) ==
    /\ a <= b
    /\ s[a] \in {"e", "E"}
    /\ LET c == IF a + 1 <= b /\ s[a + 1] \in {"+", "-"} THEN a + 2 ELSE a + 1
       IN  c <= b /\ AllDigits(s, c, b)

IsFloatLiteral(s) ==
    /\ s # <<>>
    /\ LET a == IF s[1] \in {"+", "-"} THEN 2 ELSE 1
       IN  \E m \in a..Len(s) :
              /\ IsMantissa(s, a, m)
              /\ m = Len(s) \/ IsExponent(s, m + 1, Len(s))

\* the index of the last character of the longest run of digits, '-', '.',
\* 'e', 'E', '+' that starts at the cursor
NumberRunEnd ==
    CHOOSE j \in Cursor..Len(Input) :
        /\ \A i \in (Cursor + 1)..j : Input[i] \in AsciiDigit \cup {"-", ".", "e", "E", "+"}
        /\ j = Len(Input) \/ Input[j + 1] \notin AsciiDigit \cup {"-", ".", "e", "E", "+"}

(* C11: at a digit or '-' outside a string the lexer consumes the longest
   run of digits, '-', '.', 'e', 'E', '+'; it emits one Number token if the
   whole run is a floating-point literal and fails with
   "Invalid number format" otherwise. *)
C11_NumberIsLiteralOrError ==
    [][(/\ Lexing
        /\ Lexer_peek(lexer) \in AsciiDigit \cup {"-"})
       => LET run == SubSeq(Input, Cursor + 1, NumberRunEnd)
          IN  /\ lexer'.position = NumberRunEnd
              /\ IF IsFloatLiteral(run)
                 THEN lexed' = Append(lexed, NumberTok) /\ lexret' = NoResult
                 ELSE lexed' = lexed /\ lexret' = Err("Invalid number format")]_vars

\* a run with two decimal points was consumed whole and rejected
C11_Witness ==
    /\ lexret = Err("Invalid number format")
    /\ Cursor >= 4
    /\ SubSeq(Input, Cursor - 3, Cursor) = <<"1", ".", "1", ".">>

---------------------------------------------------------------------------
(* the tokens ahead of the parser, read off the token sequence *)

\* the type of the i-th token, "None" past the end
TypeAt(i) == IF i >= 1 /\ i <= Len(parser.tokens) THEN parser.tokens[i].type ELSE "None"

AtValue == Parsing /\ Top.fn = "parse_value" /\ Top.pc = "start"

(* C12: parse_value hands LeftBrace to parse_object and LeftBracket to
   parse_array without consuming it, consumes exactly one token for a
   String, Number, Boolean or Null and returns Ok, and for any other leading
   token fails with "Expected value" without consuming it. *)
C12_ValueDispatch ==
    [][AtValue
       => LET t == TypeAt(parser.position + 1)
          IN  CASE t = "LeftBrace" ->
                     /\ parser' = parser
                     /\ ret' = NoResult
                     /\ Len(stack') = Len(stack) + 1
                     /\ stack'[Len(stack')] = Frame("parse_object", parser.position)
                [] t = "LeftBracket" ->
                     /\ parser' = parser
                     /\ ret' = NoResult
                     /\ Len(stack') = Len(stack) + 1
                     /\ stack'[Len(stack')] = Frame("parse_array", parser.position)
                [] t \in {"String", "Number", "Boolean", "Null"} ->
                     /\ parser'.position = parser.position + 1
                     /\ ret' = Ok
                     /\ stack' = Pop
                [] OTHER ->
                     /\ parser' = parser
                     /\ ret' = Err("Expected value")
                     /\ stack' = Pop]_vars

\* an array's first value was a closing brace: "Expected value", cursor on it
C12_Witness ==
    /\ pc = "parse"
    /\ ret = Err("Expected value")
    /\ TypeAt(parser.position) = "LeftBracket"
    /\ TypeAt(parser.position + 1) = "RightBrace"

\* parse_object is at the top of its loop and the next step enters a pair:
\* in state First with a token that is not the closer, or after an element
\* with a comma that the closer does not follow
EntersPair ==
    /\ AtLoop
    /\ Top.fn = "parse_object"
    /\ IF Top.first
       THEN TypeAt(parser.position + 1) \notin {"None", "RightBrace"}
       ELSE /\ TypeAt(parser.position + 1) = "Comma"
            /\ TypeAt(parser.position + 2) # "RightBrace"

\* the index of the token that has to be the key of that pair
KeyIndex == IF Top.first THEN parser.position + 1 ELSE parser.position + 2

(* C13: whenever parse_object enters a pair, the next token must be a
   String, otherwise the call fails with "Expected string key". *)
C13_KeyMustBeString ==
    [][(EntersPair /\ TypeAt(KeyIndex) # "String")
       => (/\ ret' = Err("Expected string key")
           /\ stack' = Pop
           /\ parser'.position = KeyIndex - 1)]_vars

\* an opening bracket stood where the key of the second pair had to be
C13_Witness ==
    /\ pc = "parse"
    /\ ret = Err("Expected string key")
    /\ TypeAt(parser.position) = "Comma"
    /\ TypeAt(parser.position + 1) = "LeftBracket"

(* C14: in parse_object the token right after a consumed string key must
   be a Colon; any other token, or no token, makes the call fail with
   "Expected ':'", the key consumed and no value parsed. *)
C14_ColonMustFollowKey ==
    [][(EntersPair /\ TypeAt(KeyIndex) = "String" /\ TypeAt(KeyIndex + 1) # "Colon")
       => (/\ ret' = Err("Expected ':'")
           /\ stack' = Pop
           /\ parser'.position = KeyIndex)]_vars

\* a value followed the key with no colon between
C14_Witness ==
    /\ pc = "parse"
    /\ ret = Err("Expected ':'")
    /\ TypeAt(parser.position) = "String"
    /\ TypeAt(parser.position + 1) = "Number"

---------------------------------------------------------------------------
(* C15: the first failure is propagated unchanged: once a call has returned
   Err(m), every enclosing call returns Err(m) in its turn, validate returns
   Err(m), and no token is consumed after the failure. *)
C15_FirstErrorPropagates ==
    [][(pc = "parse" /\ ret.tag = "Err")
       => (/\ ret' = ret
           /\ parser' = parser
           /\ IF stack # <<>>
              THEN stack' = Pop /\ pc' = "parse"
              ELSE result' = ret /\ pc' = "done")]_vars

\* a failure two containers deep came out of validate as it was raised
C15_Witness ==
    /\ Done
    /\ result = Err("Expected ',' or ']'")
    /\ ret = result
    /\ OpenAt(parser.tokens, parser.position) >= 2

\* the diagnostics of section 7
Diagnostics ==
    {"Unterminated string literal", "Escape sequences not yet supported",
     "Invalid number format", "Invalid identifier", "Invalid character in JSON",
     "Expected '{'", "Expected '['", "Expected string key", "Expected ':'",
     "Expected value", "Expected ',' or '}'", "Expected ',' or ']'",
     "Trailing comma not allowed", "Unexpected end of input"}

(* C16: every error that lex_tokens, a parser call or validate returns is
   one of the fixed diagnostic messages. *)
C16_ErrorsAreDiagnostics ==
    /\ lexret.tag = "Err" => lexret.msg \in Diagnostics
    /\ ret.tag = "Err" => ret.msg \in Diagnostics
    /\ result.tag = "Err" => result.msg \in Diagnostics

\* validate returned a parser's diagnostic
C16_Witness ==
    /\ Done
    /\ lexret = Ok
    /\ result = Err("Expected ':'")

---------------------------------------------------------------------------
(* C18: the lexer cursor never decreases: not in a step of lex_tokens, and
   not in lex_string, lex_number, lex_identifier or read_while run from any
   state the lexer reaches; the input is never changed. *)
C18_LexerCursorMonotone ==
    /\ [](/\ Lexer_read_while(lexer, NumberChars).lexer.position >= Cursor
          /\ Lexer_read_while(lexer, AsciiLower \cup AsciiUpper).lexer.position >= Cursor
          /\ Lexer_lex_number(lexer).lexer.position >= Cursor
          /\ Lexer_lex_identifier(lexer).lexer.position >= Cursor
          /\ Lexer_peek(lexer) = "\"" => Lexer_lex_string(lexer).lexer.position >= Cursor)
    /\ [][lexer'.position >= lexer.position /\ lexer'.input = lexer.input]_vars

\* lex_string failed well inside the text and the cursor stayed where it failed
C18_Witness ==
    /\ lexret = Err("Unterminated string literal")
    /\ Cursor = Len(Input)
    /\ Cursor >= 7

\* the step the innermost call is about to take, on the parser p
StepOf(p) ==
    CASE Top.fn = "parse_value" -> Parser_parse_value(p)
      [] Top.fn = "parse_array" /\ Top.pc = "start" -> ParseArrayOpen(p)
      [] Top.fn = "parse_array" /\ Top.pc = "loop" -> ParseArrayLoop(p, Top.first)
      [] Top.fn = "parse_object" /\ Top.pc = "start" -> ParseObjectOpen(p)
      [] Top.fn = "parse_object" /\ Top.pc = "loop" -> ParseObjectLoop(p, Top.first)

\* the parser with the tokens after the n-th cut off
CutAfter(n) ==
    [parser EXCEPT !.tokens = SubSeq(parser.tokens, 1, IF n < Len(parser.tokens) THEN n ELSE Len(parser.tokens))]

(* C19: the parser cursor never decreases and the tokens are never changed,
   so a token is consumed at most once; a step is decided by the tokens it
   consumes and the one token at the cursor it leaves: the tokens further on
   have no part in it (one-token lookahead, no backtracking). *)
C19_ParserCursorMonotone ==
    /\ []((Parsing /\ Top.pc \in {"start", "loop"})
          => LET r == StepOf(parser)
                 c == StepOf(CutAfter(r.parser.position + 1))
             IN  /\ c.res = r.res
                 /\ c.call = r.call
                 /\ c.parser.position = r.parser.position)
    /\ [][parser'.position >= parser.position /\ parser'.tokens = parser.tokens]_vars

\* a nested object was parsed to its end, each token consumed in turn
C19_Witness ==
    /\ Done
    /\ result = Ok
    /\ parser.position = Len(parser.tokens)
    /\ NestingDepth(parser.tokens) >= 3

(* C20: every iteration of the loop of lex_tokens advances the cursor by at
   least one character or returns an error, and lex_tokens returns in the
   end, Ok or Err, for every text. *)
C20_LexingTerminates ==
    /\ [][(Lexing /\ Lexer_peek(lexer) # NoChar)
          => \/ /\ lexer'.position > lexer.position
                /\ \/ Len(lexed') = Len(lexed) + 1
                   \/ is_whitespace(Lexer_peek(lexer)) /\ lexed' = lexed
             \/ lexret'.tag = "Err"]_vars
    /\ <>(lexret \in {Ok} \cup {Err(m) : m \in Diagnostics})

\* lex_tokens returned Ok after iterations that skipped whitespace and
\* emitted tokens
C20_Witness ==
    /\ lexret = Ok
    /\ Len(lexed) >= 2
    /\ Len(lexed) < Len(Input)
    /\ \E i \in 1..Len(Input) : Input[i] = " "

---------------------------------------------------------------------------
(* the automaton of a container loop, section 4.2: what an iteration does
   with the token at the cursor, read off the result of the iteration *)

\* '{','}' exchanged with '[',']'
Exchange(t) ==
    [t EXCEPT !.type = CASE t.type = "LeftBrace" -> "LeftBracket"
                         [] t.type = "LeftBracket" -> "LeftBrace"
                         [] t.type = "RightBrace" -> "RightBracket"
                         [] t.type = "RightBracket" -> "RightBrace"
                         [] OTHER -> t.type]

Exchanged(p) == [p EXCEPT !.tokens = [i \in 1..Len(p.tokens) |-> Exchange(p.tokens[i])]]

Outcome(class, skipped) == [class |-> class, skipped |-> skipped]

\* the outcome of the iteration of fn's loop that gave r from the parser p:
\* its class, and how many tokens it consumed before it closed, failed or
\* began an element
LoopOutcome(r, p, fn) ==
    LET moved == r.parser.position - p.position
    IN  IF r.res = Ok THEN Outcome("close", moved)
        ELSE IF r.res = Err("Unexpected end of input") THEN Outcome("end", moved)
        ELSE IF r.res = Err("Trailing comma not allowed") THEN Outcome("trailing", moved)
        ELSE IF r.res = Err(SeparatorError(fn)) THEN Outcome("separator", moved)
        ELSE IF r.res = Err("Expected string key") THEN Outcome("element", moved)
        ELSE IF r.res = Err("Expected ':'") THEN Outcome("element", moved - 1)
        ELSE IF r.call = "parse_value"
        THEN Outcome("element", IF fn = "parse_object" THEN moved - 2 ELSE moved)
        ELSE Outcome("none", moved)

\* the outcome the automaton gives in state First or AfterElement on the
\* tokens at and after the cursor: closer, then comma, then 'else error'
AutomatonOutcome(p, first, fn) ==
    LET token == Parser_peek(p)
    IN  IF token = NoToken THEN Outcome("end", 0)
        ELSE IF token.type = Closer(fn) THEN Outcome("close", 1)
        ELSE IF ~first /\ token.type = "Comma"
        THEN IF Parser_peek(Parser_advance(p)).type = Closer(fn)
             THEN Outcome("trailing", 1)
             ELSE Outcome("element", 1)
        ELSE IF ~first THEN Outcome("separator", 0)
        ELSE Outcome("element", 0)

(* C21: parse_object and parse_array are two instances of one automaton:
   in state First and in state AfterElement alike, on the tokens at the
   cursor of any container loop reached, an iteration of parse_object's loop and an
   iteration of parse_array's loop on the tokens with '{','}' and '[',']'
   exchanged have the same outcome (close, end of input, trailing comma,
   missing separator, or an element begun at the same token), and it is the
   outcome of the automaton that tries the closer first, then the comma,
   then the 'else error' case. *)
C21_ObjectAndArrayOneAutomaton ==
    AtLoop
    => LET exchanged == Exchanged(parser)
       IN  \A first \in BOOLEAN :
               LET o == LoopOutcome(ParseObjectLoop(parser, first), parser, "parse_object")
                   a == LoopOutcome(ParseArrayLoop(exchanged, first), exchanged, "parse_array")
               IN  /\ o = a
                   /\ o = AutomatonOutcome(parser, first, "parse_object")
                   /\ a = AutomatonOutcome(exchanged, first, "parse_array")

\* an array nested in an object is at the comma before its closing bracket,
\* after the object's loop began a pair
C21_Witness ==
    /\ AtLoop
    /\ Top.fn = "parse_array"
    /\ ~Top.first
    /\ Len(stack) >= 3
    /\ Parser_peek(parser).type = "Comma"
    /\ Parser_peek(Parser_advance(parser)).type = "RightBracket"

---------------------------------------------------------------------------
\* the opening delimiter of a container
Opener(fn) == IF fn = "parse_object" THEN "LeftBrace" ELSE "LeftBracket"

RB == Tok("RightBrace")
RK == Tok("RightBracket")

(* C22: an empty container is valid: in state First the token consumed
   last is the container's opening delimiter, and when the token at the
   cursor is the matching closer the call consumes it and returns Ok, two
   tokens in all; "{}" and an object holding an empty array or an empty
   object are accepted. *)
C22_EmptyContainerAccepted ==
    /\ []((AtLoop /\ Top.first)
          => (parser.position >= 1 /\ TypeAt(parser.position) = Opener(Top.fn)))
    /\ []((Done /\ parser.tokens \in {<<LB, RB>>,
                                      <<LB, Key, Colon, LK, RK, RB>>,
                                      <<LB, Key, Colon, LB, RB, RB>>})
          => result = Ok)
    /\ [][(AtLoop /\ Top.first /\ Parser_peek(parser).type = Closer(Top.fn))
          => (/\ ret' = Ok
              /\ stack' = Pop
              /\ parser' = Parser_advance(parser))]_vars

\* an empty array that is the value of a pair has just returned Ok
C22_Witness ==
    /\ pc = "parse"
    /\ ret = Ok
    /\ parser.position >= 5
    /\ TypeAt(parser.position) = "RightBracket"
    /\ TypeAt(parser.position - 1) = "LeftBracket"
    /\ Top.fn = "parse_value"

---------------------------------------------------------------------------
\* s with the characters ws put in after its first i characters
Inserted(s, i, ws) == SubSeq(s, 1, i) \o ws \o SubSeq(s, i + 1, Len(s))

\* runs of space, tab, CR and LF
WhitespaceRuns == {<<" ">>, <<"\t">>, <<"\r">>, <<"\n">>, <<"\r", "\n">>, <<" ", "\t">>}

(* C23: whitespace outside string literals is skipped and never tokenized:
   at every cursor at which an iteration of the loop of lex_tokens begins
   (before the first token, between two tokens, after the last), putting a
   run of space, tab, CR or LF into the text there leaves what lex_tokens
   returns as it was, the tokens or the error, and with it all that the
   parser is given.  What lex_tokens returns as a whole is what its
   iterations arrive at. *)
C23_WhitespaceNotTokenized ==
    /\ Lexing
       => \A ws \in WhitespaceRuns :
             Lexer_lex_tokens(Lexer_new(Inserted(Input, Cursor, ws)), <<>>)
             = Lexer_lex_tokens(Lexer_new(Input), <<>>)
    /\ (pc = "lex" /\ lexret # NoResult)
       => LET r == Lexer_lex_tokens(Lexer_new(Input), <<>>)
          IN  r.res = lexret /\ (lexret = Ok => r.tokens = lexed)

\* the loop of lex_tokens is between two tokens that touch, two tokens in
WhitespaceWitnessCursor ==
    /\ Cursor >= 1
    /\ Cursor < Len(Input)
    /\ ~is_whitespace(Input[Cursor])
    /\ ~is_whitespace(Input[Cursor + 1])

C23_Witness ==
    /\ Lexing
    /\ Len(lexed) >= 2
    /\ WhitespaceWitnessCursor
    /\ Lexer_lex_tokens(Lexer_new(Input), <<>>).res = Ok

---------------------------------------------------------------------------
\* what the core made of the text main read: the result of lex_tokens, and
\* that of the top-level parse_object when lexing succeeded
LexResult == Lexer_lex_tokens(Lexer_new(Input), <<>>).res

CoreResult == IF LexResult = Ok THEN ret ELSE LexResult

(* C24: main prints "Valid JSON" and exits with code 0 exactly when both
   lexing and parsing of the text succeeded; on a failure of the lexer or of
   the parser it prints "Invalid JSON: " followed by the message of the
   core, unchanged, and exits with code 1; it prints nothing before. *)
C24_DriverVerdict ==
    /\ pc # "exit" => out = Running
    /\ pc = "exit"
       => /\ out.code \in {0, 1}
          /\ out.code = 0 <=> (LexResult = Ok /\ ret = Ok)
          /\ out.code = 0 => out.stdout = <<"Valid JSON", "\n">>
          /\ out.code = 1 => /\ CoreResult.tag = "Err"
                             /\ out.stdout = <<"Invalid JSON: ", CoreResult.msg, "\n">>

\* main reported a failure of the parser on a text that lexed
C24_Witness ==
    /\ pc = "exit"
    /\ out.code = 1
    /\ lexret = Ok
    /\ out.stdout = <<"Invalid JSON: ", "Trailing comma not allowed", "\n">>

---------------------------------------------------------------------------
(* C25: for every n from 2 to MaxBraces, the text of n opening braces
   followed by n closing braces is rejected with an error value, by
   validate and by main alike: the '{' that follows the first '{' is not a
   string key, and the parse ends there, in the outermost call. *)
C25_NestedBracesRejected ==
    \A n \in 2..MaxBraces :
        Input = NestedBraces(n)
        => /\ Done => (result = Err("Expected string key") /\ parser.position = 1)
           /\ pc = "exit" => out = Exit(<<"Invalid JSON: ", "Expected string key">>, 1)
           /\ Len(stack) <= 1

\* validate has rejected the deepest text of braces
C25_Witness ==
    /\ Done
    /\ Input = NestedBraces(MaxBraces)
    /\ result.tag = "Err"
    /\ Len(parser.tokens) = 2 * MaxBraces

---------------------------------------------------------------------------
(* C26, as claimed: count_chars counts characters, each character of
   several bytes once, and for a file whose content is "Hello, " followed
   by the two ideographs, "!" and a newline it returns 9. *)
C26_CountCharsOfTestContentIsNine ==
    rowc.pc = "done"
    => /\ \A s \in RowcContents : rowc.file = as_bytes(s) => rowc.result = OkCount(Len(s))
       /\ rowc.file = as_bytes(TestContent) => rowc.result = OkCount(9)

---------------------------------------------------------------------------
\* the messages of the lexer
LexerDiagnostics ==
    {"Unterminated string literal", "Escape sequences not yet supported",
     "Invalid number format", "Invalid identifier", "Invalid character in JSON"}

(* C27: lexing and parsing are two passes, one after the other: the parser
   is constructed only after lex_tokens returned Ok with the cursor at the
   end of the text, on the tokens it returned; what lex_tokens returned
   never changes afterwards; and when the text has a lexical error validate
   returns the message of the first one lex_tokens comes to, a message of
   the lexer, with no parser call ever made, whatever the tokens before the
   error are. *)
C27_LexThenParse ==
    /\ [](pc = "parse"
          => (lexret = Ok /\ Cursor = Len(Input) /\ parser.tokens = lexed))
    /\ []((pc = "lex" /\ lexret # Ok)
          => (parser = Parser_new(<<>>) /\ stack = <<>> /\ ret = NoResult))
    /\ []((Done /\ LexResult # Ok)
          => /\ result = LexResult
             /\ result.msg \in LexerDiagnostics
             /\ parser = Parser_new(<<>>)
             /\ ret = NoResult)
    /\ [][lexret # NoResult => lexret' = lexret]_vars

\* validate returned the lexical error of a text whose tokens before the
\* error hold a trailing comma
C27_Witness ==
    /\ Done
    /\ Input = <<"{", "\"", "k", "\"", ":", "[", "1", ",", "]", "'">>
    /\ result = Err("Invalid character in JSON")
    /\ Len(lexed) = 7

---------------------------------------------------------------------------
\* the innermost call returns Ok in this step
ReturnsOk == Parsing /\ stack' = Pop /\ ret' = Ok

\* the tokens the innermost call has consumed when the step is done
Consumed == SubSeq(parser.tokens, Top.entry + 1, parser'.position)

(* C28: whenever parse_value, parse_array or parse_object returns Ok, the
   tokens from the cursor at its entry to the cursor at its exit are one
   whole value, array or object of the grammar, with every delimiter
   matched, and the cursor is just after the last of them. *)
C28_OkMeansOneDerivation ==
    [][ReturnsOk
       => /\ parser'.position > Top.entry
          /\ CASE Top.fn = "parse_value" -> IsValue(Consumed)
               [] Top.fn = "parse_array" -> IsArray(Consumed)
               [] Top.fn = "parse_object" -> IsObject(Consumed)]_vars

\* an object nested in the top-level object, holding an array, has returned Ok
C28_Witness ==
    /\ Parsing
    /\ ret = Ok
    /\ Top.fn = "parse_value"
    /\ Top.pc = "tail"
    /\ Top.entry >= 3
    /\ TypeAt(Top.entry + 1) = "LeftBrace"
    /\ TypeAt(parser.position) = "RightBrace"
    /\ \E i \in (Top.entry + 1)..parser.position : TypeAt(i) = "LeftBracket"

---------------------------------------------------------------------------
\* where the element of this iteration begins: at the cursor in state
\* First, after the comma in state AfterElement
ElementCursor == IF Top.first THEN parser ELSE Parser_advance(parser)

\* a comma where an element is expected: a leading comma, or a comma right
\* after a comma
CommaForElement ==
    /\ AtLoop
    /\ Parser_peek(parser).type = "Comma"
    /\ Parser_peek(ElementCursor).type = "Comma"

\* the parse_value called by a parse_array finds a comma
ArrayValueAtComma ==
    /\ AtValue
    /\ Len(stack) >= 2
    /\ stack[Len(stack) - 1].fn = "parse_array"
    /\ Parser_peek(parser).type = "Comma"

(* C29: a comma where an element is expected is never accepted and never
   reported as a trailing comma: in state First, or right after a consumed
   comma, a Comma makes parse_object fail with "Expected string key"; it
   makes parse_array call parse_value at the comma, which fails with
   "Expected value", the message parse_array then returns. *)
C29_CommaIsNoElement ==
    /\ [][(CommaForElement /\ Top.fn = "parse_object")
          => (/\ ret' = Err("Expected string key")
              /\ stack' = Pop
              /\ parser' = ElementCursor)]_vars
    /\ [][(CommaForElement /\ Top.fn = "parse_array")
          => (/\ parser' = ElementCursor
              /\ ret' = NoResult
              /\ stack' = Append(SetTop([Top EXCEPT !.pc = "value"]),
                                 Frame("parse_value", parser'.position)))]_vars
    /\ [][ArrayValueAtComma
          => (ret' = Err("Expected value") /\ stack' = Pop /\ parser' = parser)]_vars
    /\ [][(/\ Parsing
           /\ Top.fn = "parse_array" /\ Top.pc = "value"
           /\ ret = Err("Expected value")
           /\ Parser_peek(parser).type = "Comma")
          => (ret' = ret /\ stack' = Pop /\ parser' = parser)]_vars

\* an array has failed with "Expected value" on the second of two commas
C29_Witness ==
    /\ Parsing
    /\ ret = Err("Expected value")
    /\ Top.fn = "parse_value"
    /\ Top.pc = "tail"
    /\ TypeAt(Top.entry + 1) = "LeftBracket"
    /\ TypeAt(parser.position) = "Comma"
    /\ TypeAt(parser.position + 1) = "Comma"

---------------------------------------------------------------------------
\* the active parse_object and parse_array calls
ContainerCalls == {i \in 1..Len(stack) : stack[i].fn \in {"parse_object", "parse_array"}}

\* those of them that have consumed their opening delimiter
OpenedCalls == {i \in ContainerCalls : stack[i].pc # "start"}

\* the containers opened and not yet closed by the tokens consumed
OpenContainers == OpenAt(parser.tokens, parser.position)

(* C30, as claimed: at every point of a parse the number of active
   parse_object and parse_array calls equals the number of containers
   opened and not yet closed in the consumed tokens. *)
C30_ActiveCallsEqualOpenContainers ==
    pc = "parse" => Cardinality(ContainerCalls) = OpenContainers

(* C30, amended: while no call has failed, the number of active
   parse_object and parse_array calls that have consumed their opening
   delimiter equals the number of containers opened and not yet closed in
   the consumed tokens; a call that finds its opening delimiter consumes it
   and goes on at any depth, without an error value. *)
C30_OpenedCallsEqualOpenContainers ==
    /\ []((pc = "parse" /\ ret.tag # "Err")
          => Cardinality(OpenedCalls) = OpenContainers)
    /\ [][(/\ Parsing
           /\ Top.fn \in {"parse_object", "parse_array"}
           /\ Top.pc = "start"
           /\ Parser_peek(parser).type = Opener(Top.fn))
          => (/\ ret' = NoResult
              /\ stack' = SetTop([Top EXCEPT !.pc = "loop"])
              /\ parser' = Parser_advance(parser))]_vars

\* three containers are open, an array in an object in an object, and each
\* has its call
C30_Witness ==
    /\ Parsing
    /\ ret = NoResult
    /\ OpenContainers = 3
    /\ Cardinality(OpenedCalls) = 3
    /\ Top.fn = "parse_array"
    /\ Top.pc = "loop"

---------------------------------------------------------------------------
(* C31: "Expected '['" is unreachable through validate: a parse_array just
   entered has LeftBracket at the cursor, its caller being a parse_value
   that saw it there, so its first step consumes the bracket, and no call
   and no validate returns "Expected '['". *)
C31_ExpectedBracketUnreachable ==
    /\ [](/\ ret # Err("Expected '['")
          /\ result # Err("Expected '['")
          /\ (Parsing /\ Top.fn = "parse_array" /\ Top.pc = "start")
             => /\ Parser_peek(parser).type = "LeftBracket"
                /\ Len(stack) >= 2
                /\ stack[Len(stack) - 1].fn = "parse_value"
                /\ stack[Len(stack) - 1].pc = "tail")
    /\ [][(Parsing /\ Top.fn = "parse_array" /\ Top.pc = "start")
          => (/\ ret' = NoResult
              /\ parser' = Parser_advance(parser)
              /\ stack' = SetTop([Top EXCEPT !.pc = "loop"]))]_vars

\* an array in an array has consumed its opening bracket
C31_Witness ==
    /\ Parsing
    /\ Top.fn = "parse_array"
    /\ Top.pc = "loop"
    /\ Top.first
    /\ TypeAt(parser.position) = "LeftBracket"
    /\ TypeAt(parser.position - 1) = "LeftBracket"
    /\ Cardinality(ContainerCalls) = 3

---------------------------------------------------------------------------
(* C32: parsing terminates on every token sequence.  An iteration of the
   loop of parse_object or parse_array returns, or calls parse_value with
   the cursor no further back; a parse_value that returns Ok has consumed
   at least one token; its caller returns on an Err and goes round again on
   an Ok with the cursor where it is: so an iteration that does not return
   consumes at least one token.  The cursor never passes the last token,
   and the top-level parse_object returns Ok or Err in the end. *)
C32_ParsingTerminates ==
    /\ [](parser.position <= Len(parser.tokens))
    /\ [][AtLoop
          => \/ stack' = Pop /\ ret' # NoResult
             \/ /\ stack' = Append(SetTop([Top EXCEPT !.pc = "value"]),
                                   Frame("parse_value", parser'.position))
                /\ parser'.position >= parser.position]_vars
    /\ [][(Parsing /\ Top.fn = "parse_value" /\ stack' = Pop)
          => \/ ret'.tag = "Err"
             \/ ret' = Ok /\ parser'.position > Top.entry]_vars
    /\ [][(/\ Parsing
           /\ Top.fn \in {"parse_object", "parse_array"}
           /\ Top.pc = "value"
           /\ ret # NoResult)
          => IF ret.tag = "Err"
             THEN stack' = Pop /\ ret' = ret
             ELSE /\ stack' = SetTop([Top EXCEPT !.pc = "loop", !.first = FALSE])
                  /\ parser' = parser]_vars
    /\ <>(Done /\ result.tag \in {"Ok", "Err"})

\* the parse of an object with an array in it has ended, every token consumed
C32_Witness ==
    /\ Done
    /\ result = Ok
    /\ parser.position = Len(parser.tokens)
    /\ Len(parser.tokens) = 6
    /\ TypeAt(5) = "RightBracket"

---------------------------------------------------------------------------
(* C33: the cursors stay in bounds: in every state the lexer cursor is at
   most the number of characters of the text and the parser cursor at most
   the number of tokens; a step moves a cursor only when there is an
   element at it. *)
C33_CursorsInBounds ==
    /\ [](/\ Cursor >= 0 /\ Cursor <= Len(Input)
          /\ parser.position >= 0 /\ parser.position <= Len(parser.tokens))
    /\ [][/\ lexer'.position # lexer.position => Lexer_peek(lexer) # NoChar
          /\ (pc = "parse" /\ parser'.position # parser.position)
             => Parser_peek(parser) # NoToken]_vars

\* the text ended in an open string, the lexer cursor at its end
C33_Witness ==
    /\ Done
    /\ result = Err("Unterminated string literal")
    /\ Cursor = Len(Input)
    /\ Len(Input) >= 4
    /\ Input[Len(Input)] = "k"

---------------------------------------------------------------------------
\* s is an optional '-', a 0 and one or more digits after it: 007, -01
IsLeadingZeroRun(s) ==
    LET a == IF s # <<>> /\ s[1] = "-" THEN 2 ELSE 1
    IN  /\ Len(s) > a
        /\ s[a] = "0"
        /\ AllDigits(s, a + 1, Len(s))

\* the text is {"k":N} for a run N with leading zeros
IsLeadingZeroObject(s) ==
    /\ Len(s) >= 9
    /\ SubSeq(s, 1, 5) = <<"{", "\"", "k", "\"", ":">>
    /\ s[Len(s)] = "}"
    /\ IsLeadingZeroRun(SubSeq(s, 6, Len(s) - 1))

(* C34: the number scanner does not enforce JSON's leading-zero rule: a run
   that is an optional '-', a 0 and more digits, such as 007 or -01, is
   consumed whole and emitted as one Number token, and the object whose one
   value is such a run is accepted by validate. *)
C34_LeadingZerosAccepted ==
    /\ [][(/\ Lexing
           /\ Lexer_peek(lexer) \in AsciiDigit \cup {"-"}
           /\ IsLeadingZeroRun(SubSeq(Input, Cursor + 1, NumberRunEnd)))
          => /\ lexed' = Append(lexed, NumberTok)
             /\ lexret' = NoResult
             /\ lexer'.position = NumberRunEnd]_vars
    /\ []((Done /\ IsLeadingZeroObject(Input)) => result = Ok)

\* {"k":-01} was accepted, its value lexed as one Number token
C34_Witness ==
    /\ Done
    /\ result = Ok
    /\ Input = <<"{", "\"", "k", "\"", ":", "-", "0", "1", "}">>
    /\ lexed = <<Tok("LeftBrace"), StringTok(<<"k">>), Tok("Colon"), NumberTok, Tok("RightBrace")>>

---------------------------------------------------------------------------
\* the text without its whitespace
Unspaced(s) == SelectSeq(s, LAMBDA c : ~is_whitespace(c))

Accepted(step) == staged[step] = Ok

Staged(step) == staged[step] # NoResult

\* main.rs accepted the text: its parse_json returned Ok, or its main exited with 0
MainAccepted == (pc = "done" /\ result = Ok) \/ (pc = "exit" /\ out.code = 0)

(* C35: the validators of the steps only extend the accepted language:
   step_1 accepts exactly the texts that are one '{' followed by one '}',
   whitespace aside; a text step_1 accepts step_2 accepts, a text step_2
   accepts step_3 accepts, a text step_3 accepts step_4 and main.rs accept;
   and step_4 returns for every text what main.rs returns, Ok or the same
   message, and prints what main.rs prints. *)
C35_StepsExtendTheLanguage ==
    /\ Staged("step_1") => (Accepted("step_1") <=> Unspaced(Input) = <<"{", "}">>)
    /\ (Accepted("step_1") /\ Staged("step_2")) => Accepted("step_2")
    /\ (Accepted("step_2") /\ Staged("step_3")) => Accepted("step_3")
    /\ (Accepted("step_3") /\ Staged("step_4")) => (Accepted("step_4") /\ MainAccepted)
    /\ (Staged("step_4") /\ pc = "done") => staged["step_4"] = result
    /\ (Staged("step_4") /\ pc = "exit") => Step4_main(staged["step_4"]) = out

\* { } with whitespace inside was accepted by every step and by main.rs
C35_Witness ==
    /\ \A step \in Stages : Accepted(step)
    /\ result = Ok
    /\ Input = <<"{", " ", "}">>

=============================================================================
